---- MODULE Spec2Model ----
(***************************************************************************)
(* Model of the live-sync hook useWebSocket of playerroutes-web and of the  *)
(* tile cache of its MapCanvas component.                                  *)
(*                                                                         *)
(* The repository holds two versions of the hook:                          *)
(*   impl = "guarded" : the version with isConnectingRef / isMountedRef    *)
(*                      (second half of components/SettingsModal.tsx)      *)
(*   impl = "plain"   : hooks/useWebSocket.ts                              *)
(* Init picks one of them and every handler is modelled per version.       *)
(*                                                                         *)
(* Handlers run to completion on the single-threaded event loop, so each   *)
(* handler is an operator from the hook's state (a record of its refs and  *)
(* React state, the sockets it created and the timers and fetches it       *)
(* started) to the state it leaves; an action applies one handler.         *)
(***************************************************************************)
EXTENDS Integers, Sequences, FiniteSets, Bags, TLC

(* ---------------------------- bounds ----------------------------------- *)
MaxSockets  == 2    \* sockets alive (not yet closed) at the same time
MaxTimers   == 2    \* setTimeout timers pending at the same time
MaxAttempts == 6    \* largest value of reconnectAttemptsRef before a close
MaxFetches  == 2    \* historical fetches issued over the hook's lifetime
MaxSamples  == 3    \* largest stats.samples of a session
NumSessions == 2    \* distinct session ids
SyncAttempts == 1   \* largest reconnectAttemptsRef explored together with the stream
NumPlayers  == 1    \* distinct player UUIDs
MaxPoints   == 3    \* route points held by the session map, all paths together
MaxTime     == 1    \* largest world-clock and endedAt value the server sends
MaxParseErrors == 1 \* frames discarded by ws.onmessage
MaxResponses == 1   \* command responses forwarded to the consumer
MaxSent     == 1    \* messages handed to WebSocket.send
MaxImages   == 2    \* tile images loading at the same time
MaxRefreshes == 1   \* largest cacheBuster
MaxClicks   == 8    \* presses of the map's buttons
MaxMoves    == 2    \* wheel, mouse-move and double-click events on the canvas

(* ------------------------ program constants ---------------------------- *)
BackoffBase   == 1000     \* ms
BackoffCap    == 30000    \* ms
ConnectDelay  == 100      \* ms, initial connect and manual reconnect
NormalClosure == 1000     \* close code used by deliberate local closes
CHUNK_SIZE    == 16       \* blocks per chunk (MapCanvas)

Impls      == {"guarded", "plain"}
SocketIds  == 1..MaxSockets
SessionIds == 1..NumSessions
Players    == 1..NumPlayers
Times      == 1..MaxTime
None       == -1          \* undefined / null: an optional number that is not there

\* Close codes a close event can carry: normal closure, going away (clean,
\* sent by a server shutting down), abnormal closure (no close frame).
CloseCodes == {1000, 1001, 1006}

VARIABLES
    impl,                  \* which version of the hook is running
    wsRef,                 \* wsRef.current: 0 = null, else a socket id
    connected,             \* React state `connected`
    sessions,              \* React state `sessions`: id -> session or Absent
    reconnectTimeoutRef,   \* reconnectTimeoutRef.current: a timer or NoTimer/StaleTimer
    reconnectAttemptsRef,  \* reconnectAttemptsRef.current
    historicalLoadedRef,   \* historicalLoadedRef.current
    isConnectingRef,       \* isConnectingRef.current (guarded version)
    isMountedRef,          \* the consumer is mounted (isMountedRef.current)
    sockets,               \* socket id -> state of the WebSocket object
    timers,                \* bag of pending setTimeout timers
    fetchPending,          \* historical fetches awaiting their response
    jsonPending,           \* OK responses awaiting response.json()
    fetchCount,            \* number of fetch() calls made so far
    streak,                \* non-deliberate closes since the last open, -1 once broken
    worldTime,             \* React state `worldTime`: None = null
    parseErrors,           \* frames the catch of ws.onmessage logged and dropped
    uncaught,              \* an exception left a handler of the hook
    commandResponses,      \* calls of the consumer's onCommandResponse
    sentCount,             \* messages handed to WebSocket.send
    sendResult             \* what the last sendMessage() returned: "none" before any call

\* The state of MapCanvas about tiles.
VARIABLES
    currentDimension,      \* prop currentDimension
    prevDimensionRef,      \* prevDimensionRef.current
    tileCache,             \* tileCache.current: key -> entry, "none" = no entry
    tileImages,            \* bag of Image objects whose load has not ended
    loadingTilesCount,     \* loadingTilesCount.current
    worldBounds,           \* worldBounds.current
    cacheBuster            \* React state `cacheBuster`

\* The state of the page about the map, and of MapCanvas about the view.
VARIABLES
    initialLoading,        \* page state `initialLoading`: MapCanvas is not rendered
    selectedSessionId,     \* page state `selectedSessionId`: 0 = null
    transform,             \* React state `transform`: offsetX, offsetY, scale
    dimensions,            \* React state `dimensions`: width, height
    isDragging,            \* React state `isDragging`
    lastMouse,             \* React state `lastMouse`: x, y
    hoveredSession,        \* React state `hoveredSession`: 0 = null
    hasInitializedView,    \* hasInitializedView.current
    shown,                 \* transform, isDragging, lastMouse of the last render:
                           \* what the handlers' closures read
    clicks,                \* presses of the map's buttons so far
    moves                  \* wheel, mouse-move and double-click events so far

tileVars == << currentDimension, prevDimensionRef, tileCache, tileImages,
               loadingTilesCount, worldBounds, cacheBuster, initialLoading,
               selectedSessionId, transform, dimensions, isDragging,
               lastMouse, hoveredSession, hasInitializedView, shown, clicks,
               moves >>

vars == << impl, wsRef, connected, sessions, reconnectTimeoutRef,
           reconnectAttemptsRef, historicalLoadedRef, isConnectingRef,
           isMountedRef, sockets, timers, fetchPending, jsonPending,
           fetchCount, streak, worldTime, parseErrors, uncaught,
           commandResponses, sentCount, sendResult, tileVars >>

(* ----------------------------- values ---------------------------------- *)
\* F of the value of v, and of the values of u and v: the argument is
\* evaluated once, however often F reads it.
Bind(v, F(_)) == CHOOSE r \in {F(w) : w \in {v}} : TRUE
Bind2(u, v, F(_, _)) == CHOOSE r \in {F(x, y) : x \in {u}, y \in {v}} : TRUE

Min(a, b) == Bind2(a, b, LAMBDA x, y : IF x < y THEN x ELSE y)

RECURSIVE Pow2(_)
Pow2(n) == IF n = 0 THEN 1 ELSE 2 * Pow2(n - 1)

\* Math.sqrt, on the perfect squares the points of the model produce.
Sqrt(n) == CHOOSE r \in 0..n : r * r = n

\* JavaScript numbers that are not integers (scales, offsets, screen and world
\* coordinates) are exact fractions n/d in lowest terms with d > 0; the
\* rounding of the floating point operations is not modelled.
Abs(n) == Bind(n, LAMBDA k : IF k < 0 THEN -k ELSE k)

RECURSIVE GCD(_, _)
GCD(a, b) ==
    Bind2(a, b, LAMBDA x, y : IF y = 0 THEN x ELSE GCD(y, x % y))

Frac(n, d) ==
    Bind2(n, d, LAMBDA x, y :
        Bind2(GCD(Abs(x), Abs(y)), IF y < 0 THEN -1 ELSE 1, LAMBDA g, s :
            [n |-> (s * x) \div g, d |-> (s * y) \div g]))
Num(k) == [n |-> k, d |-> 1]

Neg(a) == Bind(a, LAMBDA x : [n |-> -x.n, d |-> x.d])
Add(a, b) ==
    Bind2(a, b, LAMBDA x, y :
        Bind(GCD(x.d, y.d), LAMBDA g :
            Frac(x.n * (y.d \div g) + y.n * (x.d \div g),
                 (x.d \div g) * y.d)))
Sub(a, b) == Add(a, Neg(b))
Mul(a, b) ==
    Bind2(a, b, LAMBDA x, y :
        IF x.n = 0 \/ y.n = 0 THEN Num(0)
        ELSE Bind2(GCD(Abs(x.n), y.d), GCD(Abs(y.n), x.d), LAMBDA g1, g2 :
                 Frac((x.n \div g1) * (y.n \div g2),
                      (x.d \div g2) * (y.d \div g1))))
\* a / b for b # 0
Div(a, b) ==
    Bind(b, LAMBDA y : Mul(a, IF y.n > 0 THEN [n |-> y.d, d |-> y.n]
                              ELSE [n |-> -y.d, d |-> -y.n]))
\* a < b, by the integer parts and then the fractional parts (no product of
\* numerators and denominators)
RECURSIVE Lt(_, _)
Lt(a, b) ==
    Bind2(a, b, LAMBDA x, y :
        LET fa == x.n \div x.d
            fb == y.n \div y.d
            ra == x.n % x.d
            rb == y.n % y.d
        IN  IF fa # fb THEN fa < fb
            ELSE IF rb = 0 THEN FALSE
            ELSE IF ra = 0 THEN TRUE
            ELSE Lt([n |-> y.d, d |-> rb], [n |-> x.d, d |-> ra]))
Le(a, b) == ~Lt(b, a)
\* Math.min, Math.max, Math.floor, Math.ceil
MathMin(a, b) == Bind2(a, b, LAMBDA x, y : IF Lt(y, x) THEN y ELSE x)
MathMax(a, b) == Bind2(a, b, LAMBDA x, y : IF Lt(x, y) THEN y ELSE x)
MathFloor(a) == Bind(a, LAMBDA x : x.n \div x.d)
MathCeil(a)  == Bind(a, LAMBDA x : -((-x.n) \div x.d))

\* A RoutePoint as far as the program reads it: x, z, the timestamp t and
\* the dimension dim.
PointIn(dim, x, z, t) == [x |-> x, z |-> z, t |-> t, dim |-> dim]
Point(x, z, t) == PointIn("minecraft:overworld", x, z, t)
Points  == {Point(0, 0, 1), Point(3, 4, 2)}
NoPoint == Point(0, 0, 0)

\* A PlayerSession as far as the hook reads or writes it; stats.samples and
\* stats.distanceXZ are the fields samples and distanceXZ.
SessionVals ==
    [player : Players, active : BOOLEAN, endedAt : Times \cup {None},
     lastSeenAt : Nat, samples : 0..MaxSamples, distanceXZ : Nat,
     path : Seq(Points)]
Absent ==
    [player |-> 0, active |-> FALSE, endedAt |-> None, lastSeenAt |-> 0,
     samples |-> -1, distanceXZ |-> 0, path |-> << >>]
NoSessions  == [id \in SessionIds |-> Absent]
SessionMaps == [SessionIds -> SessionVals \cup {Absent}]
Has(map, id) == map[id] # Absent
Keys(map)    == {id \in SessionIds : Has(map, id)}

\* The player a session id belongs to: a session is one player's.
PlayerOf(id) == ((id - 1) % NumPlayers) + 1

\* Session id as the server sends it when it has recorded no point of it:
\* running (active, no endedAt) or over.
NewSession(id, active) ==
    [player |-> PlayerOf(id), active |-> active,
     endedAt |-> IF active THEN None ELSE 1,
     lastSeenAt |-> 0, samples |-> 0, distanceXZ |-> 0, path |-> << >>]

\* The sessions of player p that a map holds as active.
ActiveOf(map, p) ==
    {id \in SessionIds : Has(map, id) /\ map[id].active /\ map[id].player = p}

OneActivePerPlayer(map) ==
    \A p \in Players : Cardinality(ActiveOf(map, p)) <= 1

\* Sessions as the server sends them (stream and listing): any active flag.
\* A snapshot or a listing of the server holds at most one active session of
\* a player.
SentVals == {NewSession(id, a) : id \in SessionIds, a \in BOOLEAN}
SentMaps ==
    {map \in [SessionIds -> SentVals \cup {Absent}] :
        /\ \A id \in Keys(map) : map[id].player = PlayerOf(id)
        /\ OneActivePerPlayer(map)}

Timer(kind, delay) == [kind |-> kind, delay |-> delay]
NoTimer    == Timer("null", 0)     \* the ref holds null
StaleTimer == Timer("stale", 0)    \* the ref holds the id of a timer no longer pending
IsPending(t) == t.kind \notin {"null", "stale"}

\* States of a WebSocket object.  CLOSING_C: close() was called while it was
\* CONNECTING; CLOSING_O: close() was called while it was OPEN.  NONE: the
\* slot holds no live socket (never created, or its close event was delivered).
readyState(s) == IF s \in {"CLOSING_C", "CLOSING_O"} THEN "CLOSING" ELSE s

\* The hook's state as one record.
St == [ impl |-> impl, wsRef |-> wsRef, connected |-> connected,
        sessions |-> sessions, reconnectTimeoutRef |-> reconnectTimeoutRef,
        reconnectAttemptsRef |-> reconnectAttemptsRef,
        historicalLoadedRef |-> historicalLoadedRef,
        isConnectingRef |-> isConnectingRef, isMountedRef |-> isMountedRef,
        sockets |-> sockets, timers |-> timers, fetchPending |-> fetchPending,
        jsonPending |-> jsonPending, fetchCount |-> fetchCount,
        streak |-> streak, worldTime |-> worldTime,
        parseErrors |-> parseErrors, uncaught |-> uncaught,
        commandResponses |-> commandResponses, sentCount |-> sentCount,
        sendResult |-> sendResult ]

Becomes(r) ==
    /\ impl' = r.impl
    /\ wsRef' = r.wsRef
    /\ connected' = r.connected
    /\ sessions' = r.sessions
    /\ reconnectTimeoutRef' = r.reconnectTimeoutRef
    /\ reconnectAttemptsRef' = r.reconnectAttemptsRef
    /\ historicalLoadedRef' = r.historicalLoadedRef
    /\ isConnectingRef' = r.isConnectingRef
    /\ isMountedRef' = r.isMountedRef
    /\ sockets' = r.sockets
    /\ timers' = r.timers
    /\ fetchPending' = r.fetchPending
    /\ jsonPending' = r.jsonPending
    /\ fetchCount' = r.fetchCount
    /\ streak' = r.streak
    /\ worldTime' = r.worldTime
    /\ parseErrors' = r.parseErrors
    /\ uncaught' = r.uncaught
    /\ commandResponses' = r.commandResponses
    /\ sentCount' = r.sentCount
    /\ sendResult' = r.sendResult

(* ----------------------- browser primitives ---------------------------- *)
FreeSockets(r) == {s \in SocketIds : r.sockets[s] = "NONE"}
LiveSockets(r) == {s \in SocketIds : r.sockets[s] \in {"CONNECTING", "OPEN"}}
NewSocketId(r) == CHOOSE s \in FreeSockets(r) : \A t \in FreeSockets(r) : s <= t

\* ws.close(): no effect unless the socket is CONNECTING or OPEN.
Close(socks, s) ==
    IF socks[s] = "CONNECTING" THEN [socks EXCEPT ![s] = "CLOSING_C"]
    ELSE IF socks[s] = "OPEN" THEN [socks EXCEPT ![s] = "CLOSING_O"]
    ELSE socks

\* clearTimeout(t): removes t if it is still pending.
ClearTimeout(bag, t) ==
    IF IsPending(t) /\ BagIn(t, bag) THEN bag (-) SetToBag({t}) ELSE bag

SetTimeout(bag, t) == bag (+) SetToBag({t})

(* ------------------- fetchHistoricalSessions --------------------------- *)
\* A merge that lets the fetched entry win over the one already present.
mergeOverwriting(prev, data) ==
    [id \in SessionIds |-> IF Has(data, id) THEN data[id] ELSE prev[id]]

\* The merge of the fetched list: only ids not already present are added.
mergeHistorical(prev, data) ==
    [id \in SessionIds |-> IF ~Has(prev, id) THEN data[id] ELSE prev[id]]

\* Up to the first await: the one-shot guard and the fetch() call.
fetchHistoricalSessions(r) ==
    IF r.historicalLoadedRef \/ (r.impl = "guarded" /\ ~r.isMountedRef) THEN r
    ELSE [r EXCEPT !.fetchPending = @ + 1, !.fetchCount = @ + 1]

\* The response arrives (ok = FALSE: a non-OK status or a network error,
\* which the catch swallows).  An accepted response awaits response.json().
fetchResponse(r, ok) ==
    LET r1 == [r EXCEPT !.fetchPending = @ - 1]
    IN  IF ok /\ (r.impl = "plain" \/ r.isMountedRef)
        THEN [r1 EXCEPT !.jsonPending = @ + 1]
        ELSE r1

\* A response.json() step that starts the map afresh on a body without list.
fetchJsonForgetting(r, hasList, data) ==
    LET r1 == [r EXCEPT !.jsonPending = @ - 1]
    IN  IF hasList
        THEN [r1 EXCEPT !.sessions = mergeHistorical(@, data),
                        !.historicalLoadedRef = TRUE]
        ELSE [r1 EXCEPT !.sessions = NoSessions]

\* response.json() resolves.  hasList = FALSE: the body has no sessions array
\* (or is not JSON, which the catch swallows).
fetchJson(r, hasList, data) ==
    LET r1 == [r EXCEPT !.jsonPending = @ - 1]
    IN  IF hasList
        THEN [r1 EXCEPT !.sessions = mergeHistorical(@, data),
                        !.historicalLoadedRef = TRUE]
        ELSE r1

(* --------------------------- handleMessage ----------------------------- *)
\* A WebSocketMessage: id = sessionId, val = session, map = activeSessions
\* keyed by _id; the fields a type does not have keep the values of NoMsg.
NoMsg ==
    [type |-> "none", id |-> 0, val |-> Absent, map |-> NoSessions,
     point |-> NoPoint, endedAt |-> None, samples |-> 0, distanceXZ |-> 0,
     worldTime |-> None]

Msg(type, id, val, map) ==
    [NoMsg EXCEPT !.type = type, !.id = id, !.val = val, !.map = map]

\* if (typeof message.worldTime === 'number') setWorldTime(message.worldTime)
setWorldTimeIfNumber(r, m) ==
    IF m.worldTime # None THEN [r EXCEPT !.worldTime = m.worldTime] ELSE r

\* An init that adds the active sessions to the map it finds.
handleInitKeeping(r, m) ==
    fetchHistoricalSessions(
        setWorldTimeIfNumber(
            [r EXCEPT !.sessions = [id \in SessionIds |->
                                       IF Has(m.map, id) THEN m.map[id] ELSE @[id]]],
            m))

handleInit(r, m) ==
    fetchHistoricalSessions(
        setWorldTimeIfNumber([r EXCEPT !.sessions = m.map], m))

handleSessionStart(r, m) ==
    [r EXCEPT !.sessions[m.id] = m.val]

\* A session_end that also forgets the path of the session it ends.
handleSessionEndClearing(r, m) ==
    IF Has(r.sessions, m.id)
    THEN [r EXCEPT !.sessions[m.id] =
              [@ EXCEPT !.active = FALSE, !.endedAt = m.endedAt,
                        !.samples = m.samples, !.distanceXZ = m.distanceXZ,
                        !.path = << >>]]
    ELSE r

handleSessionEnd(r, m) ==
    IF Has(r.sessions, m.id)
    THEN [r EXCEPT !.sessions[m.id] =
              [@ EXCEPT !.active = FALSE, !.endedAt = m.endedAt,
                        !.samples = m.samples, !.distanceXZ = m.distanceXZ]]
    ELSE r

\* A distance taken along the axes instead of the straight line.
axisDistance(a, b) ==
    LET dx == b.x - a.x
        dz == b.z - a.z
    IN  Sqrt(dx * dx) + Sqrt(dz * dz)

\* Math.sqrt(dx * dx + dz * dz)
planarDistance(a, b) ==
    LET dx == b.x - a.x
        dz == b.z - a.z
    IN  Sqrt(dx * dx + dz * dz)

\* The updater of route_point applied to the session it finds.
appendPoint(session, point) ==
    LET path == Append(session.path, point)
        d    == IF Len(path) > 1
                THEN planarDistance(path[Len(path) - 1], point)
                ELSE 0
    IN  [session EXCEPT !.path = path, !.lastSeenAt = point.t,
                        !.samples = @ + 1, !.distanceXZ = @ + d]

\* A route_point that creates the session it does not find.
handleRoutePointUpserting(r, m) ==
    setWorldTimeIfNumber(
        [r EXCEPT !.sessions[m.id] =
             appendPoint(IF Has(r.sessions, m.id) THEN @
                         ELSE NewSession(m.id, TRUE), m.point)],
        m)

\* A route_point that puts the new point in front of the path.
handleRoutePointPrepending(r, m) ==
    setWorldTimeIfNumber(
        IF Has(r.sessions, m.id)
        THEN LET old == r.sessions[m.id]
             IN  [r EXCEPT !.sessions[m.id] =
                     [appendPoint(old, m.point) EXCEPT
                         !.path = << m.point >> \o old.path]]
        ELSE r,
        m)

handleRoutePoint(r, m) ==
    setWorldTimeIfNumber(
        IF Has(r.sessions, m.id)
        THEN [r EXCEPT !.sessions[m.id] = appendPoint(@, m.point)]
        ELSE r,
        m)

\* A time_update that also restarts the session map.
handleTimeUpdateResetting(r, m) ==
    setWorldTimeIfNumber([r EXCEPT !.sessions = NoSessions], m)

handleTimeUpdate(r, m) == setWorldTimeIfNumber(r, m)

handleCommandResponse(r, m) == [r EXCEPT !.commandResponses = @ + 1]

\* JSON.parse of "null": a value without a type, reading message.type throws.
JSONNull == [NoMsg EXCEPT !.type = "null"]

\* The result of JSON.parse when it throws a SyntaxError.
SyntaxError == [NoMsg EXCEPT !.type = "SyntaxError"]

\* An exception propagates: uncaught is set until a catch clears it.
throw(r) == [r EXCEPT !.uncaught = TRUE]

handleMessage(r, m) ==
    IF r.impl = "guarded" /\ ~r.isMountedRef THEN r
    ELSE CASE m.type = "null"             -> throw(r)
           [] m.type = "init"             -> handleInit(r, m)
           [] m.type = "session_start"    -> handleSessionStart(r, m)
           [] m.type = "session_end"      -> handleSessionEnd(r, m)
           [] m.type = "route_point"      -> handleRoutePoint(r, m)
           [] m.type = "time_update"      -> handleTimeUpdate(r, m)
           [] m.type = "command_response" -> handleCommandResponse(r, m)
           [] OTHER                       -> r

\* The text of a frame: the JSON of a message (or of null), or a text that
\* is not JSON.
Frame(text, m) == [text |-> text, msg |-> m]
Malformed == Frame("not json", NoMsg)
NullFrame == Frame("null", JSONNull)
JSONstringify(m) == Frame("json", m)

JSONparse(data) ==
    IF data.text = "not json" THEN SyntaxError ELSE data.msg

\* An onmessage without the try/catch.
onmessageUncaught(r, data) ==
    LET message == JSONparse(data)
    IN  IF message = SyntaxError THEN throw(r) ELSE handleMessage(r, message)

\* ws.onmessage: try { JSON.parse; handleMessage } catch { console.error }
onmessage(r, data) ==
    LET message == JSONparse(data)
        r1 == IF message = SyntaxError THEN throw(r)
              ELSE handleMessage(r, message)
    IN  IF r1.uncaught /\ ~r.uncaught
        THEN [r1 EXCEPT !.uncaught = FALSE, !.parseErrors = @ + 1]
        ELSE r1

(* ------------------------------ connect -------------------------------- *)
\* new WebSocket(wsUrl) and wsRef.current = ws.  The URL is the configured
\* ws:// or wss:// address, for which the constructor does not throw.
newWebSocket(r) ==
    IF FreeSockets(r) = {} THEN [r EXCEPT !.wsRef = -1]   \* beyond MaxSockets
    ELSE LET s == NewSocketId(r)
         IN  [r EXCEPT !.sockets[s] = "CONNECTING", !.wsRef = s]

IsOpenRef(r) == r.wsRef # 0 /\ readyState(r.sockets[r.wsRef]) = "OPEN"

\* connect() goes on to create a socket.
connectProceeds(r) ==
    IF r.impl = "guarded"
    THEN ~(r.isConnectingRef \/ IsOpenRef(r)) /\ r.isMountedRef
    ELSE ~IsOpenRef(r)

connect(r) ==
    IF ~connectProceeds(r) THEN r
    ELSE IF r.impl = "guarded"
         THEN newWebSocket([r EXCEPT !.isConnectingRef = TRUE])
         ELSE newWebSocket(r)

\* The callback of every timer of the hook.
timerCallback(r) ==
    IF r.impl = "guarded"
    THEN (IF r.isMountedRef THEN connect(r) ELSE r)
    ELSE connect(r)

\* A backoff without the 30 s cap.
backoffUncapped(attempts) == BackoffBase * Pow2(attempts)

backoffDelay(attempts) == Min(BackoffBase * Pow2(attempts), BackoffCap)

\* The tail of ws.onclose: schedule the next attempt.
scheduleReconnect(r) ==
    LET t == Timer("retry", backoffDelay(r.reconnectAttemptsRef))
    IN  [r EXCEPT !.reconnectAttemptsRef = @ + 1,
                  !.timers = SetTimeout(@, t),
                  !.reconnectTimeoutRef = t]

onopen(r, s) ==
    IF r.impl = "guarded"
    THEN IF ~r.isMountedRef
         THEN [r EXCEPT !.sockets = Close(@, s)]
         ELSE [r EXCEPT !.connected = TRUE, !.reconnectAttemptsRef = 0,
                        !.isConnectingRef = FALSE]
    ELSE [r EXCEPT !.connected = TRUE, !.reconnectAttemptsRef = 0]

onclose(r, code) ==
    IF r.impl = "guarded"
    THEN LET r1 == [r EXCEPT !.isConnectingRef = FALSE]
             r2 == [r1 EXCEPT !.connected = FALSE, !.wsRef = 0]
         IN  IF ~r.isMountedRef THEN r1
             ELSE IF code # NormalClosure THEN scheduleReconnect(r2)
             ELSE r2
    ELSE scheduleReconnect([r EXCEPT !.connected = FALSE, !.wsRef = 0])

onerror(r) ==
    IF r.impl = "guarded" THEN [r EXCEPT !.isConnectingRef = FALSE] ELSE r

(* ----------------- effect cleanup, disconnect, reconnect --------------- *)
\* if (reconnectTimeoutRef.current) clearTimeout(...); the guarded version
\* also nulls the ref.
clearReconnectTimeout(r) ==
    IF r.reconnectTimeoutRef = NoTimer THEN r
    ELSE [r EXCEPT !.timers = ClearTimeout(@, r.reconnectTimeoutRef),
                   !.reconnectTimeoutRef =
                       IF r.impl = "guarded" THEN NoTimer ELSE StaleTimer]

\* if (wsRef.current) wsRef.current.close(...); the guarded version also
\* nulls the ref.
closeCurrent(r) ==
    IF r.wsRef = 0 THEN r
    ELSE [r EXCEPT !.sockets = Close(@, r.wsRef),
                   !.wsRef = IF r.impl = "guarded" THEN 0 ELSE @]

disconnect(r) == closeCurrent(clearReconnectTimeout(r))

reconnect(r) ==
    IF r.impl = "guarded"
    THEN LET r1 == disconnect(r)
         IN  [r1 EXCEPT !.reconnectAttemptsRef = 0,
                        !.isConnectingRef = FALSE,
                        !.timers = SetTimeout(@, Timer("manual", ConnectDelay))]
    ELSE connect(r)

cleanup(r) ==
    IF r.impl = "guarded"
    THEN LET r1 == [r EXCEPT !.isMountedRef = FALSE,
                             !.timers = ClearTimeout(@, Timer("mount", ConnectDelay))]
         IN  closeCurrent(clearReconnectTimeout(r1))
    ELSE [closeCurrent(clearReconnectTimeout(r)) EXCEPT !.isMountedRef = FALSE]

\* The mount effect: the guarded version arms the 100 ms connect timer, the
\* plain version connects at once.
mount(r) ==
    IF r.impl = "guarded"
    THEN [r EXCEPT !.isMountedRef = TRUE,
                   !.timers = SetTimeout(@, Timer("mount", ConnectDelay))]
    ELSE connect(r)

\* A sendMessage that sends whenever the hook holds a socket, whatever its
\* state: a socket still connecting keeps the message for later.
sendMessageUnchecked(r) ==
    IF r.wsRef # 0
    THEN [r EXCEPT !.sentCount = @ + 1, !.sendResult = "true"]
    ELSE [r EXCEPT !.sendResult = "false"]

sendMessage(r) ==
    IF IsOpenRef(r)
    THEN [r EXCEPT !.sentCount = @ + 1, !.sendResult = "true"]
    ELSE [r EXCEPT !.sendResult = "false"]

(* --------------------------- initial state ----------------------------- *)
Constructed(i) ==
    [ impl |-> i, wsRef |-> 0, connected |-> FALSE, sessions |-> NoSessions,
      reconnectTimeoutRef |-> NoTimer, reconnectAttemptsRef |-> 0,
      historicalLoadedRef |-> FALSE, isConnectingRef |-> FALSE,
      isMountedRef |-> TRUE, sockets |-> [s \in SocketIds |-> "NONE"],
      timers |-> EmptyBag, fetchPending |-> 0, jsonPending |-> 0,
      fetchCount |-> 0, streak |-> 0, worldTime |-> None, parseErrors |-> 0,
      uncaught |-> FALSE, commandResponses |-> 0, sentCount |-> 0,
      sendResult |-> "none" ]

Is(r) ==
    /\ impl = r.impl
    /\ wsRef = r.wsRef
    /\ connected = r.connected
    /\ sessions = r.sessions
    /\ reconnectTimeoutRef = r.reconnectTimeoutRef
    /\ reconnectAttemptsRef = r.reconnectAttemptsRef
    /\ historicalLoadedRef = r.historicalLoadedRef
    /\ isConnectingRef = r.isConnectingRef
    /\ isMountedRef = r.isMountedRef
    /\ sockets = r.sockets
    /\ timers = r.timers
    /\ fetchPending = r.fetchPending
    /\ jsonPending = r.jsonPending
    /\ fetchCount = r.fetchCount
    /\ streak = r.streak
    /\ worldTime = r.worldTime
    /\ parseErrors = r.parseErrors
    /\ uncaught = r.uncaught
    /\ commandResponses = r.commandResponses
    /\ sentCount = r.sentCount
    /\ sendResult = r.sendResult

HookInit == \E i \in Impls : Is(mount(Constructed(i)))

(* --------------------------- MapCanvas: tiles -------------------------- *)
Dimensions == {"overworld", "the_nether"}
Chunks     == {0, 8}

\* The key `${dimension}:${chunkX}:${chunkZ}` of a tile.
TileKey(d, x, z) == [dim |-> d, x |-> x, z |-> z]
TileKeys == {TileKey(d, x, 0) : d \in Dimensions, x \in Chunks}
KeysOf(d) == {k \in TileKeys : k.dim = d}

\* An Image created by loadTile: its key and the v= of its URL.
Image(key, v) == [key |-> key, v |-> v]

NoBounds == [minX |-> 0, maxX |-> 0, minZ |-> 0, maxZ |-> 0, initialized |-> FALSE]

Max(a, b) == Bind2(a, b, LAMBDA x, y : IF x > y THEN x ELSE y)

\* The tile state of MapCanvas as one record.
Tl == [ currentDimension |-> currentDimension,
        prevDimensionRef |-> prevDimensionRef, tileCache |-> tileCache,
        tileImages |-> tileImages, loadingTilesCount |-> loadingTilesCount,
        worldBounds |-> worldBounds, cacheBuster |-> cacheBuster,
        initialLoading |-> initialLoading,
        selectedSessionId |-> selectedSessionId, transform |-> transform,
        dimensions |-> dimensions, isDragging |-> isDragging,
        lastMouse |-> lastMouse, hoveredSession |-> hoveredSession,
        hasInitializedView |-> hasInitializedView, shown |-> shown,
        clicks |-> clicks, moves |-> moves ]

TileBecomes(t) ==
    /\ currentDimension' = t.currentDimension
    /\ prevDimensionRef' = t.prevDimensionRef
    /\ tileCache' = t.tileCache
    /\ tileImages' = t.tileImages
    /\ loadingTilesCount' = t.loadingTilesCount
    /\ worldBounds' = t.worldBounds
    /\ cacheBuster' = t.cacheBuster
    /\ initialLoading' = t.initialLoading
    /\ selectedSessionId' = t.selectedSessionId
    /\ transform' = t.transform
    /\ dimensions' = t.dimensions
    /\ isDragging' = t.isDragging
    /\ lastMouse' = t.lastMouse
    /\ hoveredSession' = t.hoveredSession
    /\ hasInitializedView' = t.hasInitializedView
    /\ shown' = t.shown
    /\ clicks' = t.clicks
    /\ moves' = t.moves

\* A loadTile that asks again for a tile whose load failed.
loadTileRetrying(t, key) ==
    IF t.tileCache[key] \notin {"none", "error"} THEN t
    ELSE [t EXCEPT !.tileCache[key] = "loading",
                   !.loadingTilesCount = @ + 1,
                   !.tileImages = @ (+) SetToBag({Image(key, t.cacheBuster)})]

\* loadTile up to its return: an entry of any kind is returned as it is,
\* otherwise the entry becomes 'loading' and the image request starts.
loadTile(t, key) ==
    IF t.tileCache[key] # "none" THEN t
    ELSE [t EXCEPT !.tileCache[key] = "loading",
                   !.loadingTilesCount = @ + 1,
                   !.tileImages = @ (+) SetToBag({Image(key, t.cacheBuster)})]

\* The tile loop of the draw effect over the chunks it found visible.
RECURSIVE drawTiles(_, _)
drawTiles(t, visible) ==
    Bind2(t, visible, LAMBDA v, keys :
        IF keys = {} THEN v
        ELSE Bind(CHOOSE key \in keys : TRUE, LAMBDA k :
                 drawTiles(loadTile(v, k), keys \ {k})))

\* An update of worldBounds that forgets the bounds it finds.
extendBoundsReplacing(b, key) ==
    [minX |-> key.x * CHUNK_SIZE, maxX |-> key.x * CHUNK_SIZE + CHUNK_SIZE,
     minZ |-> key.z * CHUNK_SIZE, maxZ |-> key.z * CHUNK_SIZE + CHUNK_SIZE,
     initialized |-> TRUE]

\* worldBounds after the tile of key loaded with a real image.
extendBounds(b, key) ==
    LET worldX == key.x * CHUNK_SIZE
        worldZ == key.z * CHUNK_SIZE
    IN  IF ~b.initialized
        THEN [minX |-> worldX, maxX |-> worldX + CHUNK_SIZE,
              minZ |-> worldZ, maxZ |-> worldZ + CHUNK_SIZE,
              initialized |-> TRUE]
        ELSE [minX |-> Min(b.minX, worldX),
              maxX |-> Max(b.maxX, worldX + CHUNK_SIZE),
              minZ |-> Min(b.minZ, worldZ),
              maxZ |-> Max(b.maxZ, worldZ + CHUNK_SIZE),
              initialized |-> TRUE]

\* The naturalWidth and naturalHeight a decoded tile image can have: the
\* transparent placeholder is 1x1, a rendered chunk is CHUNK_SIZE pixels wide.
NaturalSizes == {1, CHUNK_SIZE}

\* An img.onload that takes every decoded image for a rendered tile.
imgOnloadAnySize(t, img, naturalWidth, naturalHeight) ==
    [t EXCEPT !.loadingTilesCount = @ - 1,
              !.tileImages = @ (-) SetToBag({img}),
              !.tileCache[img.key] = "loaded",
              !.worldBounds = extendBounds(@, img.key)]

\* img.onload
imgOnload(t, img, naturalWidth, naturalHeight) ==
    LET t1 == [t EXCEPT !.loadingTilesCount = @ - 1,
                        !.tileImages = @ (-) SetToBag({img})]
    IN  IF naturalWidth <= 1 \/ naturalHeight <= 1
        THEN [t1 EXCEPT !.tileCache[img.key] = "empty"]
        ELSE [t1 EXCEPT !.tileCache[img.key] = "loaded",
                        !.worldBounds = extendBounds(@, img.key)]

\* img.onerror
imgOnerror(t, img) ==
    [t EXCEPT !.loadingTilesCount = @ - 1,
              !.tileImages = @ (-) SetToBag({img}),
              !.tileCache[img.key] = "error"]

NoTiles == [k \in TileKeys |-> "none"]

\* tileCache.current = {}; worldBounds.current = {...initialized: false}
clearTiles(t) == [t EXCEPT !.tileCache = NoTiles, !.worldBounds = NoBounds]

\* A refreshTiles that keeps the cache-busting version.
refreshTilesSameVersion(t) == clearTiles(t)

\* The tile part of refreshTiles (its onRefreshTiles call is the page's
\* sendMessage).
refreshTiles(t) == [clearTiles(t) EXCEPT !.cacheBuster = @ + 1]

\* The effect on currentDimension.
dimensionEffect(t) ==
    IF t.prevDimensionRef # t.currentDimension
    THEN [clearTiles(t) EXCEPT !.prevDimensionRef = t.currentDimension]
    ELSE t

\* What a render leaves to the closures of the handlers.
Closure(t) ==
    [transform |-> t.transform, isDragging |-> t.isDragging,
     lastMouse |-> t.lastMouse]
render(t) == Bind(t, LAMBDA v : [v EXCEPT !.shown = Closure(v)])

InitialTransform == [offsetX |-> Num(0), offsetY |-> Num(0), scale |-> Num(2)]

TileConstructed ==
    render(
    [ currentDimension |-> "overworld", prevDimensionRef |-> "overworld",
      tileCache |-> NoTiles, tileImages |-> EmptyBag, loadingTilesCount |-> 0,
      worldBounds |-> NoBounds, cacheBuster |-> 0,
      initialLoading |-> TRUE, selectedSessionId |-> 0,
      transform |-> InitialTransform,
      dimensions |-> [width |-> 800, height |-> 600],
      isDragging |-> FALSE, lastMouse |-> [x |-> 0, y |-> 0],
      hoveredSession |-> 0, hasInitializedView |-> FALSE,
      shown |-> << >>, clicks |-> 0, moves |-> 0 ])

TileIs(t) ==
    /\ currentDimension = t.currentDimension
    /\ prevDimensionRef = t.prevDimensionRef
    /\ tileCache = t.tileCache
    /\ tileImages = t.tileImages
    /\ loadingTilesCount = t.loadingTilesCount
    /\ worldBounds = t.worldBounds
    /\ cacheBuster = t.cacheBuster
    /\ initialLoading = t.initialLoading
    /\ selectedSessionId = t.selectedSessionId
    /\ transform = t.transform
    /\ dimensions = t.dimensions
    /\ isDragging = t.isDragging
    /\ lastMouse = t.lastMouse
    /\ hoveredSession = t.hoveredSession
    /\ hasInitializedView = t.hasInitializedView
    /\ shown = t.shown
    /\ clicks = t.clicks
    /\ moves = t.moves

\* DIMENSION_FULL_IDS[currentDimension]
DIMENSION_FULL_IDS(d) == IF d = "the_nether" THEN "minecraft:the_nether"
                         ELSE "minecraft:overworld"

SetMin(S) == CHOOSE x \in S : \A y \in S : x <= y
SetMax(S) == CHOOSE x \in S : \A y \in S : x >= y

\* The first key, in the order of the Map's iteration, that is in S.
RECURSIVE First(_, _)
First(order, S) ==
    IF order = << >> THEN 0
    ELSE IF Head(order) \in S THEN Head(order)
    ELSE First(Tail(order), S)

\* The points of a path that are in dimension fullDimId.
InDim(path, fullDimId) ==
    {path[i] : i \in {j \in 1..Len(path) : path[j].dim = fullDimId}}

\* path.find(p => p.dim === fullDimId), for a path with such a point.
findInDim(path, fullDimId) ==
    path[SetMin({j \in 1..Len(path) : path[j].dim = fullDimId})]

\* { offsetX: -point.x * 2, offsetY: -point.z * 2, scale: 2 }
CenteredOn(point) ==
    [offsetX |-> Num(-point.x * 2), offsetY |-> Num(-point.z * 2),
     scale |-> Num(2)]

\* An auto-center effect without its hasInitializedView guard.
autoCenterAgain(t, map, order) ==
    LET fullDimId == DIMENSION_FULL_IDS(t.currentDimension)
        active == {id \in Keys(map) :
                      /\ map[id].active /\ Len(map[id].path) > 0
                      /\ map[id].path[Len(map[id].path)].dim = fullDimId}
    IN  IF active = {} THEN t
        ELSE LET path == map[First(order, active)].path
             IN  [t EXCEPT !.transform = CenteredOn(path[Len(path)]),
                           !.hasInitializedView = TRUE]

\* The auto-center effect, run with the session map of the render; order:
\* the keys of the map as its iteration yields them.
autoCenter(t, map, order) ==
    LET fullDimId == DIMENSION_FULL_IDS(t.currentDimension)
        active == {id \in Keys(map) :
                      /\ map[id].active /\ Len(map[id].path) > 0
                      /\ map[id].path[Len(map[id].path)].dim = fullDimId}
        within == {id \in Keys(map) : InDim(map[id].path, fullDimId) # {}}
        allPointsInDim ==
            UNION {InDim(map[id].path, fullDimId) : id \in Keys(map)}
        xs == {q.x : q \in allPointsInDim}
        zs == {q.z : q \in allPointsInDim}
    IN  IF t.hasInitializedView \/ Keys(map) = {} THEN t
        ELSE IF active # {}
        THEN LET path == map[First(order, active)].path
             IN  [t EXCEPT !.transform = CenteredOn(path[Len(path)]),
                           !.hasInitializedView = TRUE]
        ELSE IF within # {}
        THEN [t EXCEPT
                 !.transform =
                     CenteredOn(findInDim(map[First(order, within)].path,
                                          fullDimId)),
                 !.hasInitializedView = TRUE,
                 !.worldBounds =
                     [minX |-> SetMin(xs) - 100, maxX |-> SetMax(xs) + 100,
                      minZ |-> SetMin(zs) - 100, maxZ |-> SetMax(zs) + 100,
                      initialized |-> TRUE]]
        ELSE t

\* toWorld of the draw effect, for one axis: size is the width or the height
\* and offset the offsetX or the offsetY of the transform tr.
toWorld(screen, size, offset, scale) ==
    Div(Sub(Sub(Num(screen), Frac(size, 2)), offset), scale)

\* Math.floor(Math.sqrt(q)) for a fraction q >= 0.
floorSqrt(q) ==
    Bind(q, LAMBDA v :
        CHOOSE h \in 0..(v.n \div v.d + 1) :
            /\ h * h * v.d <= v.n
            /\ (h + 1) * (h + 1) * v.d > v.n)

\* One axis of the chunks the draw effect finds: startChunk..endChunk of the
\* viewport with its margin of a chunk, clamped to the bounds bmin..bmax with
\* their margin of 2 chunks when the bounds are initialized.
renderSpan(size, offset, scale, bmin, bmax, initialized) ==
    Bind2(MathFloor(Div(toWorld(0, size, offset, scale), Num(CHUNK_SIZE))) - 1,
          MathCeil(Div(toWorld(size, size, offset, scale), Num(CHUNK_SIZE))) + 1,
          LAMBDA startChunk, endChunk :
              IF initialized
              THEN [start |-> Max(startChunk,
                                  MathFloor(Frac(bmin, CHUNK_SIZE)) - 2),
                    end   |-> Min(endChunk,
                                  MathCeil(Frac(bmax, CHUNK_SIZE)) + 2)]
              ELSE [start |-> startChunk, end |-> endChunk])

\* The safety limit of the draw effect on the chunks it found.
limitTiles(renderStartX, renderEndX, renderStartZ, renderEndZ) ==
    LET maxTiles   == 1000
        totalTiles == (renderEndX - renderStartX + 1)
                      * (renderEndZ - renderStartZ + 1)
        centerChunkX == (renderStartX + renderEndX) \div 2
        centerChunkZ == (renderStartZ + renderEndZ) \div 2
        chunksWide   == renderEndX - renderStartX
        chunksHigh   == renderEndZ - renderStartZ
    IN  IF totalTiles > maxTiles
        THEN Bind(Frac(chunksWide, Max(chunksHigh, 1)), LAMBDA aspectRatio :
             Bind(floorSqrt(Div(Num(maxTiles),
                                MathMax(aspectRatio, Frac(1, 10)))),
                  LAMBDA maxChunksHigh :
             Bind2(MathFloor(Mul(Num(maxChunksHigh), aspectRatio)) \div 2,
                   maxChunksHigh \div 2,
                   LAMBDA halfWidth, halfHeight :
                 [startX |-> centerChunkX - halfWidth,
                  endX   |-> centerChunkX + halfWidth,
                  startZ |-> centerChunkZ - halfHeight,
                  endZ   |-> centerChunkZ + halfHeight])))
        ELSE [startX |-> renderStartX, endX |-> renderEndX,
              startZ |-> renderStartZ, endZ |-> renderEndZ]

\* The chunks whose tiles the draw effect asks for when it renders transform
\* tr: renderStartX..renderEndX and renderStartZ..renderEndZ.
tileRange(t, tr) ==
    Bind2(renderSpan(t.dimensions.width, tr.offsetX, tr.scale,
                     t.worldBounds.minX, t.worldBounds.maxX,
                     t.worldBounds.initialized),
          renderSpan(t.dimensions.height, tr.offsetY, tr.scale,
                     t.worldBounds.minZ, t.worldBounds.maxZ,
                     t.worldBounds.initialized),
          LAMBDA spanX, spanZ :
              limitTiles(spanX.start, spanX.end, spanZ.start, spanZ.end))

\* The keys of the tile loop of the draw effect, among the tiles of the model.
visibleKeys(t, tr) ==
    Bind(tileRange(t, tr), LAMBDA range :
        {k \in KeysOf(t.currentDimension) :
            /\ k.x \in range.startX..range.endX
            /\ k.z \in range.startZ..range.endZ})

\* The draw effect of a render with transform tr.
draw(t, tr) == Bind2(t, tr, LAMBDA v, w : drawTiles(v, visibleKeys(v, w)))

\* A render after a state change, and its draw effect.
rerender(t) == Bind(t, LAMBDA v : render(draw(v, v.transform)))

\* A commit of MapCanvas with a new session map or another dimension: the
\* effects run in the order of their declaration (on the dimension, on the
\* sessions, the draw effect of this render), then the transform the
\* auto-center effect set is rendered.
commit(t, map, order) ==
    Bind2(t, autoCenter(dimensionEffect(t), map, order), LAMBDA v, t1 :
        rerender(draw(t1, v.transform)))

\* The transform both resetView functions set when the bounds are
\* initialized.
fitAll(bounds, dims) ==
    LET worldWidth  == bounds.maxX - bounds.minX
        worldHeight == bounds.maxZ - bounds.minZ
        centerX == Frac(bounds.minX + bounds.maxX, 2)
        centerZ == Frac(bounds.minZ + bounds.maxZ, 2)
        padding == 50
        availableWidth  == dims.width - padding * 2
        availableHeight == dims.height - padding * 2
        scaleX == Frac(availableWidth, worldWidth)
        scaleY == Frac(availableHeight, worldHeight)
        scale  == MathMin(MathMin(scaleX, scaleY), Num(2))
    IN  [offsetX |-> Mul(Neg(centerX), scale),
         offsetY |-> Mul(Neg(centerZ), scale),
         scale   |-> MathMax(Frac(1, 10), scale)]

\* resetView of the imperative handle (the page calls it on a dimension
\* change): nothing without bounds.
resetViewHandle(t) ==
    IF t.worldBounds.initialized
    THEN [t EXCEPT !.transform = fitAll(t.worldBounds, t.dimensions)]
    ELSE t

\* resetView of the button.
resetView(t) ==
    IF t.worldBounds.initialized
    THEN [t EXCEPT !.transform = fitAll(t.worldBounds, t.dimensions)]
    ELSE [t EXCEPT !.transform.offsetX = Num(0), !.transform.offsetY = Num(0)]

\* handleDimensionChange of the page, up to the commit of its render.
handleDimensionChange(t, dimension, map, order) ==
    commit([resetViewHandle(t) EXCEPT !.currentDimension = dimension],
           map, order)

\* canvasRef.current.getBoundingClientRect(): the canvas starts right of the
\* player list.
CanvasRect == [left |-> 288, top |-> 0]

\* screenToWorld with the transform tr of the render, for one axis.
screenToWorld(screen, size, offset, scale) ==
    Div(Sub(Sub(Num(screen), Frac(size, 2)), offset), scale)

\* clampTransform
clampTransform(bounds, newTransform) ==
    LET padding  == 100
        centerX  == Div(Neg(newTransform.offsetX), newTransform.scale)
        centerZ  == Div(Neg(newTransform.offsetY), newTransform.scale)
        clampedX == MathMax(Num(bounds.minX - padding),
                            MathMin(Num(bounds.maxX + padding), centerX))
        clampedZ == MathMax(Num(bounds.minZ - padding),
                            MathMin(Num(bounds.maxZ + padding), centerZ))
    IN  IF ~bounds.initialized THEN newTransform
        ELSE [newTransform EXCEPT
                 !.offsetX = Mul(Neg(clampedX), newTransform.scale),
                 !.offsetY = Mul(Neg(clampedZ), newTransform.scale)]

handleMouseDown(t, e) ==
    [t EXCEPT !.isDragging = TRUE,
              !.lastMouse = [x |-> e.clientX, y |-> e.clientY]]

\* The session handleMouseMove finds for hoveredSession: the active session
\* whose last point is nearest to the world point, nearer than the
\* threshold; 0 if there is none.
RECURSIVE nearest(_, _, _, _, _, _)
nearest(map, order, worldX, worldZ, nearestDistance, nearestSession) ==
    IF order = << >> THEN nearestSession
    ELSE LET session == map[Head(order)]
             lastPoint == session.path[Len(session.path)]
             dx == Sub(Num(lastPoint.x), worldX)
             dz == Sub(Num(lastPoint.z), worldZ)
             \* the square of the distance, compared with squares
             distance == Add(Mul(dx, dx), Mul(dz, dz))
         IN  IF session.active /\ Len(session.path) > 0
                /\ Lt(distance, nearestDistance)
             THEN nearest(map, Tail(order), worldX, worldZ, distance,
                          Head(order))
             ELSE nearest(map, Tail(order), worldX, worldZ, nearestDistance,
                          nearestSession)

\* handleMouseMove: dx, dy, the hover test and transform.scale are those of
\* the closure; the updater of setTransform gets the state.
handleMouseMove(t, e, map, order) ==
    LET c  == t.shown
        dx == e.clientX - c.lastMouse.x
        dy == e.clientY - c.lastMouse.y
        prev == t.transform
        t1 == IF c.isDragging
              THEN [t EXCEPT
                       !.transform =
                           clampTransform(t.worldBounds,
                               [offsetX |-> Add(prev.offsetX, Num(dx)),
                                offsetY |-> Add(prev.offsetY, Num(dy)),
                                scale   |-> prev.scale]),
                       !.lastMouse = [x |-> e.clientX, y |-> e.clientY]]
              ELSE t
        mouseX == e.clientX - CanvasRect.left
        mouseY == e.clientY - CanvasRect.top
        worldX == screenToWorld(mouseX, t.dimensions.width,
                                c.transform.offsetX, c.transform.scale)
        worldZ == screenToWorld(mouseY, t.dimensions.height,
                                c.transform.offsetY, c.transform.scale)
        threshold == Div(Num(20), c.transform.scale)
    IN  [t1 EXCEPT !.hoveredSession =
                       nearest(map, order, worldX, worldZ,
                               Mul(threshold, threshold), 0)]

handleMouseUp(t) == [t EXCEPT !.isDragging = FALSE]

handleMouseLeave(t) == [t EXCEPT !.isDragging = FALSE, !.hoveredSession = 0]

\* A handleWheel that takes the offsets and the scale of the closure.
handleWheelStale(t, e) ==
    LET c        == t.shown
        delta    == IF e.deltaY > 0 THEN Frac(9, 10) ELSE Frac(11, 10)
        newScale == MathMin(MathMax(Mul(c.transform.scale, delta),
                                    Frac(1, 100)), Num(50))
        mouseX   == Sub(Num(e.clientX - CanvasRect.left),
                        Frac(t.dimensions.width, 2))
        mouseY   == Sub(Num(e.clientY - CanvasRect.top),
                        Frac(t.dimensions.height, 2))
        ratio    == Div(newScale, c.transform.scale)
    IN  [t EXCEPT !.transform =
            [offsetX |-> Sub(mouseX, Mul(Sub(mouseX, c.transform.offsetX), ratio)),
             offsetY |-> Sub(mouseY, Mul(Sub(mouseY, c.transform.offsetY), ratio)),
             scale   |-> newScale]]

\* handleWheel: newScale comes from the closure's transform.scale, the
\* offsets from the state the updater gets.
handleWheel(t, e) ==
    LET c        == t.shown
        prev     == t.transform
        delta    == IF e.deltaY > 0 THEN Frac(9, 10) ELSE Frac(11, 10)
        newScale == MathMin(MathMax(Mul(c.transform.scale, delta),
                                    Frac(1, 100)), Num(50))
        mouseX   == Sub(Num(e.clientX - CanvasRect.left),
                        Frac(t.dimensions.width, 2))
        mouseY   == Sub(Num(e.clientY - CanvasRect.top),
                        Frac(t.dimensions.height, 2))
        ratio    == Div(newScale, prev.scale)
    IN  [t EXCEPT !.transform =
            [offsetX |-> Sub(mouseX, Mul(Sub(mouseX, prev.offsetX), ratio)),
             offsetY |-> Sub(mouseY, Mul(Sub(mouseY, prev.offsetY), ratio)),
             scale   |-> newScale]]

handleDoubleClick(t, e) ==
    LET c      == t.shown
        mouseX == e.clientX - CanvasRect.left
        mouseY == e.clientY - CanvasRect.top
        worldX == screenToWorld(mouseX, t.dimensions.width,
                                c.transform.offsetX, c.transform.scale)
        worldZ == screenToWorld(mouseY, t.dimensions.height,
                                c.transform.offsetY, c.transform.scale)
    IN  [t EXCEPT !.transform.offsetX = Mul(Neg(worldX), t.transform.scale),
                  !.transform.offsetY = Mul(Neg(worldZ), t.transform.scale)]

\* getSelectedPlayerPosition: NoPoint stands for null.
getSelectedPlayerPosition(t, map) ==
    IF t.selectedSessionId # 0 /\ Has(map, t.selectedSessionId)
       /\ Len(map[t.selectedSessionId].path) > 0
    THEN LET path == map[t.selectedSessionId].path IN path[Len(path)]
    ELSE NoPoint

\* zoomIn and zoomOut with their factor: transform.scale * 1.5 and
\* transform.scale / 1.5, read from the closure.
zoomBy(t, map, factor) ==
    LET playerPos == getSelectedPlayerPosition(t, map)
        newScale  == Mul(t.shown.transform.scale, factor)
    IN  IF playerPos # NoPoint
        THEN [t EXCEPT !.transform =
                 [offsetX |-> Mul(Num(-playerPos.x), newScale),
                  offsetY |-> Mul(Num(-playerPos.z), newScale),
                  scale   |-> newScale]]
        ELSE [t EXCEPT !.transform.scale = newScale]

zoomIn(t, map)  == zoomBy(t, map, Frac(3, 2))
zoomOut(t, map) == zoomBy(t, map, Frac(2, 3))

\* centerOnPosition of the imperative handle
centerOnPosition(t, x, z) ==
    LET scale == MathMax(t.shown.transform.scale, Num(4))
    IN  [t EXCEPT !.transform =
            [offsetX |-> Mul(Num(-x), scale), offsetY |-> Mul(Num(-z), scale),
             scale |-> scale]]

\* centerOnPlayer of the button
centerOnPlayer(t, map, order) ==
    LET fullDimId == DIMENSION_FULL_IDS(t.currentDimension)
        active == {id \in Keys(map) :
                      map[id].active /\ Len(map[id].path) > 0}
        here   == {id \in active :
                      map[id].path[Len(map[id].path)].dim = fullDimId}
        id     == IF here # {} THEN First(order, here) ELSE First(order, active)
        lastPoint   == map[id].path[Len(map[id].path)]
        targetScale == MathMax(t.shown.transform.scale, Num(4))
    IN  IF active = {} THEN t
        ELSE [t EXCEPT !.transform =
                 [offsetX |-> Mul(Num(-lastPoint.x), targetScale),
                  offsetY |-> Mul(Num(-lastPoint.z), targetScale),
                  scale   |-> targetScale]]

\* dimensionToShort of the page: the short name of a full dimension id.
dimensionToShort(dim) ==
    IF \E d \in Dimensions : DIMENSION_FULL_IDS(d) = dim
    THEN CHOOSE d \in Dimensions : DIMENSION_FULL_IDS(d) = dim
    ELSE "overworld"

\* handleSessionSelect of the page for a session id, up to the commit of
\* its render.
handleSessionSelect(t, sessionId, map, order) ==
    LET t1 == [t EXCEPT !.selectedSessionId = sessionId]
        path == map[sessionId].path
        lastPoint == path[Len(path)]
    IN  IF Has(map, sessionId) /\ Len(path) > 0
        THEN commit(centerOnPosition(
                        [t1 EXCEPT !.currentDimension =
                                       dimensionToShort(lastPoint.dim)],
                        lastPoint.x, lastPoint.z),
                    map, order)
        ELSE commit(t1, map, order)

\* toScreen of the draw effect, for one axis.
toScreen(world, size, offset, scale) ==
    Add(Add(Mul(Num(world), scale), offset), Frac(size, 2))

\* Math.sqrt((x2 - x1) ** 2 + (y2 - y1) ** 2) for a segment parallel to an
\* axis, as the segments of the model's paths are.
segmentDistance(x1, y1, x2, y2) ==
    IF y1 = y2 THEN (IF Lt(x2, x1) THEN Sub(x1, x2) ELSE Sub(x2, x1))
    ELSE (IF Lt(y2, y1) THEN Sub(y1, y2) ELSE Sub(y2, y1))

\* The display settings of a user who has the direction indicators and the
\* paths of inactive sessions shown.
ArrowSettings == [showArrows |-> TRUE, showInactivePaths |-> TRUE]

\* The loop of drawRoute over the segments from point i on, with
\* accumulatedDistance acc: the number of chevrons it draws.
RECURSIVE indicators(_, _, _, _)
indicators(t, pointsInDimension, i, accumulatedDistance) ==
    IF i > Len(pointsInDimension) THEN 0
    ELSE LET tr == t.transform
             w  == t.dimensions.width
             h  == t.dimensions.height
             x1 == toScreen(pointsInDimension[i - 1].x, w, tr.offsetX, tr.scale)
             y1 == toScreen(pointsInDimension[i - 1].z, h, tr.offsetY, tr.scale)
             x2 == toScreen(pointsInDimension[i].x, w, tr.offsetX, tr.scale)
             y2 == toScreen(pointsInDimension[i].z, h, tr.offsetY, tr.scale)
             minPixelDistance == Num(60)
             acc == Add(accumulatedDistance, segmentDistance(x1, y1, x2, y2))
         IN  IF Le(minPixelDistance, acc)
             THEN 1 + indicators(t, pointsInDimension, i + 1, Num(0))
             ELSE indicators(t, pointsInDimension, i + 1, acc)

\* A call of drawRoute that draws nothing.
NothingDrawn ==
    [polyline |-> FALSE, indicators |-> 0, startMarker |-> FALSE,
     endArrow |-> FALSE, marker |-> FALSE]

\* A drawRoute that draws the sessions that are over whatever the settings
\* say.
drawRouteOffline(t, session, isSelected, dimensionFilter, settings) ==
    LET IsIn(q) == q.dim = dimensionFilter
        pointsInDimension == SelectSeq(session.path, IsIn)
        route == isSelected /\ Len(pointsInDimension) >= 2
    IN  IF Len(session.path) = 0 \/ Len(pointsInDimension) = 0
        THEN NothingDrawn
        ELSE [polyline    |-> route,
              indicators  |-> IF route /\ settings.showArrows
                              THEN indicators(t, pointsInDimension, 2, Num(0))
                              ELSE 0,
              startMarker |-> route,
              endArrow    |-> route /\ ~session.active,
              marker      |-> /\ session.active
                              /\ session.path[Len(session.path)].dim
                                     = dimensionFilter]

\* What drawRoute draws for a session in a frame with the transform of t:
\* the polyline of the route, the number of direction indicators on it, the
\* start marker, the end arrowhead and the marker of the player.
drawRoute(t, session, isSelected, dimensionFilter, settings) ==
    LET IsIn(q) == q.dim = dimensionFilter
        pointsInDimension == SelectSeq(session.path, IsIn)
        route == isSelected /\ Len(pointsInDimension) >= 2
    IN  IF \/ Len(session.path) = 0
           \/ ~session.active /\ ~settings.showInactivePaths
           \/ Len(pointsInDimension) = 0
        THEN NothingDrawn
        ELSE [polyline    |-> route,
              indicators  |-> IF route /\ settings.showArrows
                              THEN indicators(t, pointsInDimension, 2, Num(0))
                              ELSE 0,
              startMarker |-> route,
              endArrow    |-> /\ route
                              /\ ~session.active
                              /\ Len(pointsInDimension) >= 2,
              marker      |-> /\ session.active
                              /\ Len(session.path) > 0
                              /\ session.path[Len(session.path)].dim
                                     = dimensionFilter]

\* The page's effect on `connected`: the loading screen goes and MapCanvas
\* is rendered for the first time.
mountMap(t, map, order) ==
    commit([t EXCEPT !.initialLoading = FALSE], map, order)

\* The hook is constructed and mounted; the map is not rendered yet.
Init == HookInit /\ TileIs(TileConstructed)

(* ------------------------------ actions -------------------------------- *)
RECURSIVE SumOver(_, _)
SumOver(f, S) ==
    IF S = {} THEN 0
    ELSE LET x == CHOOSE y \in S : TRUE
         IN  f[x] + SumOver(f, S \ {x})

\* The route points the session map holds.
TotalPoints(map) == SumOver([id \in SessionIds |-> Len(map[id].path)], SessionIds)

\* The bounds of the model, as a guard on the state a step leads to.
WithinBounds(r) ==
    /\ r.wsRef >= 0
    /\ BagCardinality(r.timers) <= MaxTimers
    /\ r.reconnectAttemptsRef <= MaxAttempts
    /\ r.fetchCount <= MaxFetches
    /\ \A id \in SessionIds : r.sessions[id].samples <= MaxSamples
    /\ r.parseErrors <= MaxParseErrors
    /\ r.commandResponses <= MaxResponses
    /\ r.sentCount <= MaxSent
    /\ TotalPoints(r.sessions) <= MaxPoints

Step(r) ==
    \E v \in {r} : WithinBounds(v) /\ Becomes(v) /\ UNCHANGED tileVars

\* The handshake of socket s succeeds: readyState becomes OPEN, onopen runs.
SocketOpen(s) ==
    /\ sockets[s] = "CONNECTING"
    /\ Step([onopen([St EXCEPT !.sockets[s] = "OPEN"], s) EXCEPT !.streak = 0])

\* The codes the close event of a socket in state st can carry: a connection
\* that was never established fails (1006), an established one ends with the
\* code of the peer's close frame, or 1006 when it is lost.
CloseCodesOf(st) ==
    IF st \in {"CONNECTING", "CLOSING_C"} THEN {1006} ELSE CloseCodes

\* Socket s is closed: by the peer or the network (from CONNECTING or OPEN) or
\* at the end of a close() of the hook (from CLOSING).  An abnormal closure
\* fires error and then close in the same task.
SocketClose(s, code) ==
    /\ sockets[s] # "NONE"
    /\ code \in CloseCodesOf(sockets[s])
    /\ LET deliberate == readyState(sockets[s]) = "CLOSING"
           r0 == [St EXCEPT !.sockets[s] = "NONE"]
           r1 == IF code = 1006 THEN onerror(r0) ELSE r0
           r2 == onclose(r1, code)
           k  == IF deliberate \/ streak < 0 THEN -1
                 ELSE IF r2.timers # timers THEN streak + 1
                 ELSE streak
       IN  Step([r2 EXCEPT !.streak = k])

\* A pending timer fires.  tracked: it is the one reconnectTimeoutRef holds,
\* whose id stays in the ref after it fired.
TimerFire(t, tracked) ==
    /\ BagIn(t, timers)
    /\ IF tracked THEN reconnectTimeoutRef = t
       ELSE CopiesIn(t, timers) > (IF reconnectTimeoutRef = t THEN 1 ELSE 0)
    /\ LET r0 == [St EXCEPT !.timers = @ (-) SetToBag({t}),
                            !.reconnectTimeoutRef =
                                IF tracked THEN StaleTimer ELSE @]
       IN  Step(timerCallback(r0))

\* The consumer calls disconnect().
Disconnect ==
    /\ isMountedRef
    /\ Step(disconnect(St))

\* The consumer calls reconnect().
Reconnect ==
    /\ isMountedRef
    /\ Step([reconnect(St) EXCEPT !.streak = -1])

\* The consumer unmounts: the effect cleanup runs.
Unmount ==
    /\ isMountedRef
    /\ Step(cleanup(St))

\* The messages of the server that insert, end or replace sessions.
InitMessages == {Msg("init", 0, Absent, map) : map \in SentMaps}

Messages ==
    InitMessages
    \cup {Msg("session_start", id, NewSession(id, a), NoSessions) :
              id \in SessionIds, a \in BOOLEAN}
    \cup {[Msg("session_end", id, Absent, NoSessions) EXCEPT !.endedAt = 1] :
              id \in SessionIds}

\* A message arrives on socket s (delivered only while it is OPEN): the frame
\* holds its JSON and ws.onmessage runs.
SocketMessage(s, m) ==
    /\ sockets[s] = "OPEN"
    /\ Step(onmessage(St, JSONstringify(m)))

\* A frame that is not the JSON of a message arrives on socket s.
SocketGarbage(s, data) ==
    /\ sockets[s] = "OPEN"
    /\ Step(onmessage(St, data))

\* The consumer calls sendMessage().
SendMessage ==
    /\ isMountedRef
    /\ Step(sendMessage(St))

\* The response of a historical fetch arrives.
FetchResponse(ok) ==
    /\ fetchPending > 0
    /\ Step(fetchResponse(St, ok))

\* response.json() of an accepted response resolves.
FetchJson(hasList, data) ==
    /\ jsonPending > 0
    /\ Step(fetchJson(St, hasList, data))

\* The connection's life cycle: socket events, timers, the consumer's calls.
Next ==
    \/ \E s \in SocketIds : SocketOpen(s)
    \/ \E s \in SocketIds, code \in CloseCodes : SocketClose(s, code)
    \/ \E t \in BagToSet(timers), tracked \in BOOLEAN : TimerFire(t, tracked)
    \/ Disconnect
    \/ Reconnect
    \/ Unmount

Spec == Init /\ [][Next]_vars

\* A close event while at most SyncAttempts retries have been scheduled since
\* the last open.
SyncSocketClose(s, code) ==
    /\ SocketClose(s, code)
    /\ reconnectAttemptsRef' <= SyncAttempts

\* The stream and the historical fetch over the connection's life cycle, for
\* a consumer that leaves reconnection to the hook (it calls neither
\* disconnect() nor reconnect()), with at most SyncAttempts retries scheduled
\* since the last open.
SyncNext ==
    \/ \E s \in SocketIds : SocketOpen(s)
    \/ \E s \in SocketIds, code \in CloseCodes : SyncSocketClose(s, code)
    \/ \E t \in BagToSet(timers), tracked \in BOOLEAN : TimerFire(t, tracked)
    \/ Unmount
    \/ \E s \in SocketIds, m \in Messages : SocketMessage(s, m)
    \/ \E ok \in BOOLEAN : FetchResponse(ok)
    \/ \E hasList \in BOOLEAN, data \in SentMaps : FetchJson(hasList, data)

SpecSync == Init /\ [][SyncNext]_vars

\* The stats a session_end carries.
EndStats == {[samples |-> 1, distanceXZ |-> 5]}

OptionalTimes == Times \cup {None}

\* The messages that build and change the session map.
SessionMessages ==
    {Msg("session_start", id, NewSession(id, TRUE), NoSessions) :
         id \in SessionIds}
    \cup {[Msg("session_end", id, Absent, NoSessions) EXCEPT
               !.endedAt = e, !.samples = st.samples,
               !.distanceXZ = st.distanceXZ] :
              id \in SessionIds, e \in Times, st \in EndStats}
    \cup {[Msg("route_point", id, Absent, NoSessions) EXCEPT !.point = p] :
              id \in SessionIds, p \in Points}

\* The sessions on a connection that stays up, after an init without active
\* sessions whose historical fetch is not answered yet: the hook connects, the
\* socket opens and the messages about single sessions arrive in any order.
StreamNext ==
    \/ \E s \in SocketIds : SocketOpen(s)
    \/ \E t \in BagToSet(timers), tracked \in BOOLEAN : TimerFire(t, tracked)
    \/ \E s \in SocketIds, m \in SessionMessages : SocketMessage(s, m)

SpecStream == Init /\ [][StreamNext]_vars

\* The messages about the world clock and the commands, with the session
\* starts and the route points that carry a world time.
ClockMessages ==
    {Msg("session_start", id, NewSession(id, TRUE), NoSessions) :
         id \in SessionIds}
    \cup {[Msg("route_point", id, Absent, NoSessions) EXCEPT
               !.point = Point(0, 0, 1), !.worldTime = w] :
              id \in SessionIds, w \in Times}
    \cup {[Msg("time_update", 0, Absent, NoSessions) EXCEPT !.worldTime = w] :
              w \in OptionalTimes}
    \cup {Msg("command_response", 0, Absent, NoSessions)}

\* The frames that are not the JSON of a message.
BadFrames == {Malformed, NullFrame}

\* The frames on a connection that stays up, well-formed or not.
FramesNext ==
    \/ \E s \in SocketIds : SocketOpen(s)
    \/ \E t \in BagToSet(timers), tracked \in BOOLEAN : TimerFire(t, tracked)
    \/ \E s \in SocketIds, m \in ClockMessages : SocketMessage(s, m)
    \/ \E s \in SocketIds, data \in BadFrames : SocketGarbage(s, data)

SpecFrames == Init /\ [][FramesNext]_vars

\* The connection's life cycle with a consumer that also sends.
SendNext ==
    \/ \E s \in SocketIds : SocketOpen(s)
    \/ \E s \in SocketIds, code \in CloseCodes : SyncSocketClose(s, code)
    \/ \E t \in BagToSet(timers), tracked \in BOOLEAN : TimerFire(t, tracked)
    \/ Disconnect
    \/ Reconnect
    \/ Unmount
    \/ SendMessage

SpecSend == Init /\ [][SendNext]_vars

(* ------------------------- MapCanvas: actions -------------------------- *)
TileWithinBounds(t) ==
    /\ BagCardinality(t.tileImages) <= MaxImages
    /\ t.cacheBuster <= MaxRefreshes
    /\ t.clicks <= MaxClicks
    /\ t.moves <= MaxMoves

TileStep(t) == \E v \in {t} : TileWithinBounds(v) /\ TileBecomes(v)

\* The orders in which the iteration of a Map with these keys can yield them.
Orders(map) ==
    {order \in [1..Cardinality(Keys(map)) -> Keys(map)] :
        \A i, j \in DOMAIN order : i # j => order[i] # order[j]}

\* The page's effect sees connected = true and renders the map.
MountMap(order) ==
    /\ initialLoading /\ connected
    /\ order \in Orders(sessions)
    /\ TileStep(mountMap(Tl, sessions, order))
    /\ Becomes(St)

\* A frame is drawn again (a render that changes neither the sessions nor
\* the dimension): the draw effect asks for the tiles of the chunks it finds
\* visible.
DrawFrame ==
    /\ ~initialLoading
    /\ TileStep(rerender(Tl))
    /\ Becomes(St)

\* The load of an image ends: with an image of some size or with an error.
ImageLoad(img, naturalWidth, naturalHeight) ==
    /\ BagIn(img, tileImages)
    /\ TileStep(imgOnload(Tl, img, naturalWidth, naturalHeight))
    /\ Becomes(St)

ImageError(img) ==
    /\ BagIn(img, tileImages)
    /\ TileStep(imgOnerror(Tl, img))
    /\ Becomes(St)

\* The user presses the refresh button: the page sends refresh_tiles through
\* the hook, the cache is emptied and the render of the click draws with the
\* new cacheBuster.
RefreshTiles ==
    /\ ~initialLoading
    /\ WithinBounds(sendMessage(St))
    /\ Becomes(sendMessage(St))
    /\ TileStep(rerender(refreshTiles(Tl)))

\* The user chooses another dimension in the page.
ChangeDimension(d, order) ==
    /\ ~initialLoading
    /\ d # currentDimension
    /\ order \in Orders(sessions)
    /\ TileStep(handleDimensionChange(Tl, d, sessions, order))
    /\ Becomes(St)

\* The tiles of a map whose page receives no session.
TilesNext ==
    \/ \E s \in SocketIds : SocketOpen(s)
    \/ \E t \in BagToSet(timers), tracked \in BOOLEAN : TimerFire(t, tracked)
    \/ \E order \in Orders(sessions) : MountMap(order)
    \/ DrawFrame
    \/ \E img \in BagToSet(tileImages), w \in NaturalSizes, h \in NaturalSizes :
           ImageLoad(img, w, h)
    \/ \E img \in BagToSet(tileImages) : ImageError(img)
    \/ RefreshTiles
    \/ \E d \in Dimensions, order \in Orders(sessions) : ChangeDimension(d, order)

SpecTiles == Init /\ [][TilesNext]_vars

\* The route points of the sessions the map is shown: one in the overworld
\* and one in the nether.
MapPoints ==
    {Point(0, 0, 1), PointIn("minecraft:the_nether", 3, 4, 2)}

\* Session id as /api/sessions lists it: over, with the path it recorded.
Historical(id, path) ==
    [NewSession(id, FALSE) EXCEPT !.path = path, !.samples = Len(path),
                                  !.lastSeenAt = path[Len(path)].t]

\* The listings of the server: a session that is over, with one point.
HistoricalMaps ==
    {[NoSessions EXCEPT ![NumSessions] = Historical(NumSessions, << q >>)] :
         q \in MapPoints}

\* The messages of the server about a player who is online.
MapMessages ==
    {Msg("init", 0, Absent, NoSessions),
     Msg("session_start", 1, NewSession(1, TRUE), NoSessions)}
    \cup {[Msg("route_point", 1, Absent, NoSessions) EXCEPT !.point = q] :
              q \in MapPoints}

\* The hook's state becomes r and the page renders: MapCanvas, when it is
\* shown, commits with the new session map.
WithMap(r, order) ==
    \E v \in {r} :
        /\ WithinBounds(v)
        /\ Becomes(v)
        /\ order \in Orders(v.sessions)
        /\ IF initialLoading THEN UNCHANGED tileVars
           ELSE TileStep(commit(Tl, v.sessions, order))

MapSocketMessage(s, m, order) ==
    /\ sockets[s] = "OPEN"
    /\ WithMap(onmessage(St, JSONstringify(m)), order)

MapFetchJson(hasList, data, order) ==
    /\ jsonPending > 0
    /\ WithMap(fetchJson(St, hasList, data), order)

\* The map of a page that receives sessions, live and listed, while tiles
\* load and the user changes the dimension.
SeedNext ==
    \/ \E s \in SocketIds : SocketOpen(s)
    \/ \E t \in BagToSet(timers), tracked \in BOOLEAN : TimerFire(t, tracked)
    \/ \E order \in Orders(sessions) : MountMap(order)
    \/ \E s \in SocketIds, m \in MapMessages :
          \E order \in Orders(onmessage(St, JSONstringify(m)).sessions) :
              MapSocketMessage(s, m, order)
    \/ FetchResponse(TRUE)
    \/ \E data \in HistoricalMaps :
          \E order \in Orders(fetchJson(St, TRUE, data).sessions) :
              MapFetchJson(TRUE, data, order)
    \/ \E img \in BagToSet(tileImages) : ImageLoad(img, CHUNK_SIZE, CHUNK_SIZE)
    \/ \E d \in Dimensions, order \in Orders(sessions) : ChangeDimension(d, order)

SpecSeed == Init /\ [][SeedNext]_vars

\* Where the pointer is in an event: at the centre of the canvas or left of
\* and below it.
Pointers ==
    {[clientX |-> 688, clientY |-> 300], [clientX |-> 488, clientY |-> 400]}
WheelEvents ==
    {[clientX |-> q.clientX, clientY |-> q.clientY, deltaY |-> dy] :
         q \in Pointers, dy \in {-100, 100}}

\* A click or a press on the map: its handler runs and React renders before
\* the event ends.
Pressed(t) ==
    /\ ~initialLoading
    /\ \E v \in {t} :
          /\ v.clicks <= MaxClicks /\ v.moves <= MaxMoves
          /\ TileStep(rerender(v))
    /\ Becomes(St)

\* A wheel or mouse-move event: its handler runs, the render comes later.
Moved(t) ==
    /\ ~initialLoading
    /\ TileStep([t EXCEPT !.moves = @ + 1])
    /\ Becomes(St)

\* The render after wheel and mouse-move events.
Render ==
    /\ shown # Closure(Tl)
    /\ Pressed(Tl)

MouseDown(e) == ~isDragging /\ Pressed(handleMouseDown(Tl, e))
MouseUp      == isDragging /\ Pressed(handleMouseUp(Tl))
MouseMove(e, order) ==
    /\ order \in Orders(sessions)
    /\ Moved(handleMouseMove(Tl, e, sessions, order))
Wheel(e) == Moved(handleWheel(Tl, e))
DoubleClick(e) ==
    Pressed([handleDoubleClick(Tl, e) EXCEPT !.moves = @ + 1])
ZoomIn  == Pressed([zoomIn(Tl, sessions) EXCEPT !.clicks = @ + 1])
ZoomOut == Pressed([zoomOut(Tl, sessions) EXCEPT !.clicks = @ + 1])
ResetView == Pressed([resetView(Tl) EXCEPT !.clicks = @ + 1])
CenterOnPlayer(order) ==
    /\ order \in Orders(sessions)
    /\ Pressed([centerOnPlayer(Tl, sessions, order) EXCEPT !.clicks = @ + 1])

\* The view of a map while the user turns the wheel, after zooming in with
\* the button.
WheelNext ==
    \/ \E s \in SocketIds : SocketOpen(s)
    \/ \E t \in BagToSet(timers), tracked \in BOOLEAN : TimerFire(t, tracked)
    \/ \E order \in Orders(sessions) : MountMap(order)
    \/ \E e \in WheelEvents : Wheel(e)
    \/ Render
    \/ moves = 0 /\ ZoomIn

SpecWheel == Init /\ [][WheelNext]_vars

\* The view of a map whose tiles load while the user drags it and centres
\* it with double clicks.
DragNext ==
    \/ \E s \in SocketIds : SocketOpen(s)
    \/ \E t \in BagToSet(timers), tracked \in BOOLEAN : TimerFire(t, tracked)
    \/ \E order \in Orders(sessions) : MountMap(order)
    \/ \E img \in BagToSet(tileImages) : ImageLoad(img, CHUNK_SIZE, CHUNK_SIZE)
    \/ \E e \in Pointers : MouseDown(e)
    \/ \E e \in Pointers, order \in Orders(sessions) : MouseMove(e, order)
    \/ MouseUp
    \/ \E e \in Pointers : DoubleClick(e)
    \/ Render

SpecDrag == Init /\ [][DragNext]_vars

\* The view of a map whose tiles load while the user presses the buttons.
ZoomNext ==
    \/ \E s \in SocketIds : SocketOpen(s)
    \/ \E t \in BagToSet(timers), tracked \in BOOLEAN : TimerFire(t, tracked)
    \/ \E order \in Orders(sessions) : MountMap(order)
    \/ \E img \in BagToSet(tileImages) : ImageLoad(img, CHUNK_SIZE, CHUNK_SIZE)
    \/ ZoomIn
    \/ ZoomOut
    \/ ResetView

SpecZoom == Init /\ [][ZoomNext]_vars

\* The listings of the server with a session that is over and went far from
\* the origin: 7200 blocks to the east or 560 blocks to the south.
FarMaps ==
    {[NoSessions EXCEPT ![NumSessions] =
          Historical(NumSessions, << Point(0, 0, 1), q >>)] :
         q \in {Point(7200, 0, 2), Point(0, 560, 2)}}

\* The view of a map of a server without players online that lists sessions,
\* near and far, while tiles load and the user presses the reset-view button.
FitNext ==
    \/ \E s \in SocketIds : SocketOpen(s)
    \/ \E t \in BagToSet(timers), tracked \in BOOLEAN : TimerFire(t, tracked)
    \/ \E order \in Orders(sessions) : MountMap(order)
    \/ \E s \in SocketIds, order \in Orders(NoSessions) :
          MapSocketMessage(s, Msg("init", 0, Absent, NoSessions), order)
    \/ FetchResponse(TRUE)
    \/ \E data \in HistoricalMaps \cup FarMaps :
          \E order \in Orders(fetchJson(St, TRUE, data).sessions) :
              MapFetchJson(TRUE, data, order)
    \/ \E img \in BagToSet(tileImages) : ImageLoad(img, CHUNK_SIZE, CHUNK_SIZE)
    \/ ResetView

SpecFit == Init /\ [][FitNext]_vars

\* The user clicks a session of the player list.
SelectSession(id, order) ==
    /\ ~initialLoading
    /\ Has(sessions, id)
    /\ clicks < MaxClicks
    /\ order \in Orders(sessions)
    /\ TileStep([handleSessionSelect(Tl, id, sessions, order)
                    EXCEPT !.clicks = @ + 1])
    /\ Becomes(St)

\* Paths along a straight line from the origin 30 blocks to the east: its
\* two ends alone, and with a point between them.
StraightPaths ==
    {<< Point(0, 0, 1), Point(30, 0, 2) >>,
     << Point(0, 0, 1), Point(15, 0, 2), Point(30, 0, 3) >>,
     << Point(0, 0, 1), Point(10, 0, 2), Point(30, 0, 3) >>}

\* The init messages of a server whose player 1 is online and has walked
\* one of these paths.
RouteMessages ==
    {Msg("init", 0, Absent,
         [NoSessions EXCEPT ![1] =
              [NewSession(1, TRUE) EXCEPT !.path = path,
                                          !.samples = Len(path),
                                          !.lastSeenAt = path[Len(path)].t]]) :
         path \in StraightPaths}

\* The routes of a map whose user selects sessions and zooms.
RouteNext ==
    \/ \E s \in SocketIds : SocketOpen(s)
    \/ \E t \in BagToSet(timers), tracked \in BOOLEAN : TimerFire(t, tracked)
    \/ \E order \in Orders(sessions) : MountMap(order)
    \/ \E s \in SocketIds, m \in RouteMessages :
          \E order \in Orders(onmessage(St, JSONstringify(m)).sessions) :
              MapSocketMessage(s, m, order)
    \/ \E id \in SessionIds, order \in Orders(sessions) :
          SelectSession(id, order)
    \/ ZoomIn
    \/ ZoomOut

SpecRoute == Init /\ [][RouteNext]_vars

\* The listings of a server whose last session is over and recorded two
\* points: both in the overworld, or the second in the nether.
DrawnMaps ==
    {[NoSessions EXCEPT ![NumSessions] = Historical(NumSessions, path)] :
         path \in {<< Point(0, 0, 1), Point(30, 0, 2) >>,
                   << Point(0, 0, 1),
                      PointIn("minecraft:the_nether", 3, 4, 2) >>}}

\* The init messages of a server with nobody online, or with player 1
\* online after one or two points in the overworld.
DrawMessages ==
    {Msg("init", 0, Absent, NoSessions)}
    \cup {Msg("init", 0, Absent,
               [NoSessions EXCEPT ![1] =
                    [NewSession(1, TRUE) EXCEPT !.path = path,
                                                !.samples = Len(path),
                                                !.lastSeenAt = 1]]) :
              path \in {<< Point(0, 0, 1) >>,
                        << Point(0, 0, 1), Point(30, 0, 1) >>}}

\* The values of the display settings drawRoute reads.
DisplaySettings == [showArrows : BOOLEAN, showInactivePaths : BOOLEAN]

\* The routes of a map that shows sessions live and over, in the dimension
\* shown and in the other one, whose user selects sessions.
DrawNext ==
    \/ \E s \in SocketIds : SocketOpen(s)
    \/ \E t \in BagToSet(timers), tracked \in BOOLEAN : TimerFire(t, tracked)
    \/ \E order \in Orders(sessions) : MountMap(order)
    \/ \E s \in SocketIds, m \in DrawMessages :
          \E order \in Orders(onmessage(St, JSONstringify(m)).sessions) :
              MapSocketMessage(s, m, order)
    \/ FetchResponse(TRUE)
    \/ \E data \in DrawnMaps :
          \E order \in Orders(fetchJson(St, TRUE, data).sessions) :
              MapFetchJson(TRUE, data, order)
    \/ \E id \in SessionIds, order \in Orders(sessions) :
          SelectSession(id, order)

SpecDraw == Init /\ [][DrawNext]_vars

\* The tiles of a map whose user zooms in until one chunk is left in view,
\* refreshes the tiles and changes the dimension while images load.
StaleNext ==
    \/ \E s \in SocketIds : SocketOpen(s)
    \/ \E t \in BagToSet(timers), tracked \in BOOLEAN : TimerFire(t, tracked)
    \/ \E order \in Orders(sessions) : MountMap(order)
    \/ ZoomIn
    \/ \E img \in BagToSet(tileImages), w \in NaturalSizes, h \in NaturalSizes :
           ImageLoad(img, w, h)
    \/ RefreshTiles
    \/ \E d \in Dimensions, order \in Orders(sessions) : ChangeDimension(d, order)

SpecStale == Init /\ [][StaleNext]_vars

\* The pointer moves over a map of the overworld while a player is online,
\* in the overworld or in the nether.
HoverNext ==
    \/ \E s \in SocketIds : SocketOpen(s)
    \/ \E t \in BagToSet(timers), tracked \in BOOLEAN : TimerFire(t, tracked)
    \/ \E order \in Orders(sessions) : MountMap(order)
    \/ \E s \in SocketIds, m \in MapMessages :
          \E order \in Orders(onmessage(St, JSONstringify(m)).sessions) :
              MapSocketMessage(s, m, order)
    \/ \E e \in Pointers, order \in Orders(sessions) : MouseMove(e, order)

SpecHover == Init /\ [][HoverNext]_vars

\* The messages, after the init, of a server whose player 1 comes online in
\* the nether and leaves.
CentreMessages ==
    {Msg("session_start", 1, NewSession(1, TRUE), NoSessions),
     [Msg("route_point", 1, Absent, NoSessions) EXCEPT
          !.point = PointIn("minecraft:the_nether", 3, 4, 2)],
     [Msg("session_end", 1, Absent, NoSessions) EXCEPT !.endedAt = 1]}

\* The listing of a server whose last session is over, with one point at the
\* origin of the overworld.
CentreMaps ==
    {[NoSessions EXCEPT
          ![NumSessions] = Historical(NumSessions, << Point(0, 0, 1) >>)]}

\* The view of a map whose session map changes in every way (the init of
\* the connection, session_start, route_point, session_end, the merge of
\* the listing) and whose user changes the dimension once the tiles of the
\* frame have loaded.
CentreNext ==
    \/ \E s \in SocketIds : SocketOpen(s)
    \/ \E t \in BagToSet(timers), tracked \in BOOLEAN : TimerFire(t, tracked)
    \/ \E order \in Orders(sessions) : MountMap(order)
    \/ \E s \in SocketIds, order \in Orders(NoSessions) :
          /\ fetchCount = 0
          /\ MapSocketMessage(s, Msg("init", 0, Absent, NoSessions), order)
    \/ \E s \in SocketIds, m \in CentreMessages :
          \E order \in Orders(onmessage(St, JSONstringify(m)).sessions) :
              MapSocketMessage(s, m, order)
    \/ FetchResponse(TRUE)
    \/ \E data \in CentreMaps :
          \E order \in Orders(fetchJson(St, TRUE, data).sessions) :
              MapFetchJson(TRUE, data, order)
    \/ \E img \in BagToSet(tileImages) : ImageLoad(img, CHUNK_SIZE, CHUNK_SIZE)
    \/ \E d \in Dimensions, order \in Orders(sessions) :
          tileImages = EmptyBag /\ ChangeDimension(d, order)

SpecCentre == Init /\ [][CentreNext]_vars

TypeOK ==
    /\ impl \in Impls
    /\ wsRef \in 0..MaxSockets
    /\ wsRef # 0 => sockets[wsRef] # "NONE"
    /\ \A id \in SessionIds :
          /\ sessions[id].active \in BOOLEAN
          /\ sessions[id].samples \in -1..MaxSamples
          /\ \A i \in 1..Len(sessions[id].path) :
                sessions[id].path[i].dim
                    \in {DIMENSION_FULL_IDS(d) : d \in Dimensions}
    /\ reconnectAttemptsRef \in 0..MaxAttempts
    /\ transform.scale.d > 0 /\ transform.scale.n > 0
    /\ loadingTilesCount = BagCardinality(tileImages)

(* ======================= properties of the hook ======================== *)
RetryTimers(bag) == {t \in BagToSet(bag) : t.kind = "retry"}
RetryCount(bag)  ==
    LET S == RetryTimers(bag)
    IN  IF S = {} THEN 0 ELSE BagCardinality([t \in S |-> bag[t]])

\* A close event of a socket the hook had not closed itself is delivered.
RemoteCloseStep ==
    \E s \in SocketIds :
        sockets[s] \in {"CONNECTING", "OPEN"} /\ sockets'[s] = "NONE"

\* The close event of a socket the hook closed itself is delivered.
LocalCloseStep ==
    \E s \in SocketIds :
        sockets[s] \in {"CLOSING_C", "CLOSING_O"} /\ sockets'[s] = "NONE"

\* 1s, 2s, 4s, 8s, 16s, 30s, 30s, ...
ExpectedDelay(k) ==
    IF k >= 5 THEN 30000 ELSE <<1000, 2000, 4000, 8000, 16000>>[k + 1]

\* C1: the k-th reconnect delay scheduled in a row of non-deliberate closes
\* (k counted from the last successful open; the row ends at a deliberate
\* close or a manual reconnect()) is min(1000 * 2^k, 30000) ms, so the first
\* one after a successful open is 1 s.
C1_BackoffSequence ==
    [][(streak >= 0 /\ streak' = streak + 1)
          => /\ reconnectTimeoutRef' = Timer("retry", ExpectedDelay(streak))
             /\ BagIn(reconnectTimeoutRef', timers')]_vars

\* Six closes in a row: the sixth delay is the capped one.
C1_Witness ==
    /\ streak = 6
    /\ reconnectTimeoutRef = Timer("retry", 30000)
    /\ BagIn(reconnectTimeoutRef, timers)

\* C2: every close not caused by a deliberate local close schedules a
\* reconnect while the consumer is mounted, whatever its close code.
C2_EveryRemoteCloseRetries ==
    [][(RemoteCloseStep /\ isMountedRef)
          => (timers' # timers /\ BagIn(reconnectTimeoutRef', timers'))]_vars

\* C3: the close event of a socket closed by disconnect() or by the unmount
\* schedules no reconnect timer.
C3_LocalCloseSchedulesNothing ==
    [][LocalCloseStep => timers' = timers]_vars

\* C4: reconnect() leaves no scheduled retry pending, leaves the connection
\* it found neither connecting nor open, and resets the backoff counter.
C4_ReconnectStartsAfresh ==
    [][Reconnect
          => /\ RetryTimers(timers') = {}
             /\ wsRef # 0 => sockets'[wsRef] \notin {"CONNECTING", "OPEN"}
             /\ reconnectAttemptsRef' = 0]_vars

\* C5: at most one socket of the hook is connecting or open.
C5_OneLiveSocket == Cardinality(LiveSockets(St)) <= 1

\* C6: at most one reconnect timer is pending.
C6_OneReconnectTimer == RetryCount(timers) <= 1

\* C7: the merge of the historical list leaves every entry already in the
\* session map as it was; it only adds ids that were absent.
C7_MergeKeepsExisting ==
    [][(jsonPending' = jsonPending - 1)
          => \A id \in Keys(sessions) : sessions'[id] = sessions[id]]_vars

\* A merge has taken place and an entry touched by the stream is in the map.
C7_Witness ==
    /\ historicalLoadedRef
    /\ sessions[1] = NewSession(1, TRUE)
    /\ sessions[2] = NewSession(2, FALSE)

\* C8: the historical fetch is issued once and never again.
C8_FetchIssuedOnce == fetchCount <= 1

\* C9: a session id present in the session map is never removed from it.
C9_NeverDeleted ==
    [][\A id \in SessionIds : Has(sessions, id) => Has(sessions', id)]_vars

\* C10: after an init is processed the session map is exactly the message's
\* activeSessions keyed by id: nothing of the previous map is left.
C10_InitReplacesMap ==
    [][\A s \in SocketIds, m \in InitMessages :
          (SocketMessage(s, m) /\ (impl = "guarded" => isMountedRef))
          => sessions' = m.map]_vars

\* Two inits were processed and the map holds one session.
C10_Witness ==
    /\ fetchCount = 2
    /\ ~historicalLoadedRef
    /\ Keys(sessions) = {1}

\* The steps in which message m of M arrives on an open socket.
Arrives(m) == \E s \in SocketIds : SocketMessage(s, m)

\* C11: a route_point or a session_end whose session id is not in the session
\* map leaves the map as it was and raises no error; the socket stays open,
\* so the messages that follow are handled.
C11_UnknownIdIgnored ==
    [][\A m \in SessionMessages :
          (/\ m.type \in {"route_point", "session_end"}
           /\ ~Has(sessions, m.id)
           /\ Arrives(m))
          => /\ sessions' = sessions
             /\ ~uncaught' /\ parseErrors' = parseErrors
             /\ sockets' = sockets /\ connected' = connected]_vars

\* Session 1 has a path and session 2 is unknown, on an open socket: the state
\* in which a message for session 2 is dropped, and the one it leaves.
C11_Witness ==
    /\ connected
    /\ ~Has(sessions, 2)
    /\ Has(sessions, 1) /\ Len(sessions[1].path) = 2

\* C12: a route_point for a session in the map appends its point at the end
\* of that session's path, sets lastSeenAt to the point's timestamp, adds 1
\* to samples and leaves every other session as it was.
C12_RoutePointAppends ==
    [][\A m \in SessionMessages :
          (m.type = "route_point" /\ Has(sessions, m.id) /\ Arrives(m))
          => /\ sessions'[m.id].path = Append(sessions[m.id].path, m.point)
             /\ sessions'[m.id].lastSeenAt = m.point.t
             /\ sessions'[m.id].samples = sessions[m.id].samples + 1
             /\ \A id \in SessionIds \ {m.id} : sessions'[id] = sessions[id]]_vars

\* Two different points were appended to session 1 while session 2 is there.
C12_Witness ==
    /\ Has(sessions, 2)
    /\ Has(sessions, 1)
    /\ sessions[1].path = << Point(0, 0, 1), Point(3, 4, 2) >>
    /\ sessions[1].lastSeenAt = 2
    /\ sessions[1].samples = 2

\* The planar distance of two of the model's points, from the table of their
\* coordinates: (0,0)-(3,4) is 5, a point to itself 0.
TableDistance(a, b) == IF a.x = b.x /\ a.z = b.z THEN 0 ELSE 5

RECURSIVE PathDistance(_)
PathDistance(path) ==
    IF Len(path) <= 1 THEN 0
    ELSE PathDistance(SubSeq(path, 1, Len(path) - 1))
             + TableDistance(path[Len(path) - 1], path[Len(path)])

\* C13: a session that started with an empty path and distance 0 and has
\* received only route points since (it has not been ended) has a distanceXZ
\* equal to the sum of the planar distances of its consecutive path points.
C13_DistanceIsPathLength ==
    \A id \in Keys(sessions) :
        sessions[id].endedAt = None
            => sessions[id].distanceXZ = PathDistance(sessions[id].path)

\* The points (0,0), (3,4), (3,4) give exactly 5.
C13_Witness ==
    /\ Has(sessions, 1)
    /\ sessions[1].endedAt = None
    /\ sessions[1].path = << Point(0, 0, 1), Point(3, 4, 2), Point(3, 4, 2) >>
    /\ sessions[1].distanceXZ = 5

\* C14: a session_end for a session in the map sets its active flag to
\* false, its endedAt and its stats to the message's, and leaves its path,
\* its other fields and every other session as they were.
C14_SessionEndFrame ==
    [][\A m \in SessionMessages :
          (m.type = "session_end" /\ Has(sessions, m.id) /\ Arrives(m))
          => /\ sessions'[m.id] =
                    [sessions[m.id] EXCEPT !.active = FALSE,
                                           !.endedAt = m.endedAt,
                                           !.samples = m.samples,
                                           !.distanceXZ = m.distanceXZ]
             /\ sessions'[m.id].path = sessions[m.id].path
             /\ \A id \in SessionIds \ {m.id} : sessions'[id] = sessions[id]]_vars

\* Session 1 was ended after two points: the stats are the message's, the
\* path is still there, and session 2 is running.
C14_Witness ==
    /\ Has(sessions, 1)
    /\ ~sessions[1].active /\ sessions[1].endedAt = 1
    /\ sessions[1].samples = 1 /\ sessions[1].distanceXZ = 5
    /\ sessions[1].path = << Point(3, 4, 2), Point(3, 4, 2) >>
    /\ Has(sessions, 2) /\ sessions[2].active

\* C15: for every player at most one session of the map is active.
C15_OneActivePerPlayer == OneActivePerPlayer(sessions)

\* C16: a frame that does not parse to a message is discarded: the session
\* map, the world clock and the connection are as before and no exception
\* leaves ws.onmessage.
C16_BadFrameDiscarded ==
    [][\A s \in SocketIds, data \in BadFrames :
          SocketGarbage(s, data)
          => /\ sessions' = sessions /\ worldTime' = worldTime
             /\ connected' = connected /\ wsRef' = wsRef
             /\ sockets' = sockets /\ commandResponses' = commandResponses
             /\ ~uncaught']_vars

\* A frame was discarded, and the stream's messages have been applied.
C16_Witness ==
    /\ parseErrors = 1
    /\ connected
    /\ worldTime = 1
    /\ Keys(sessions) = SessionIds

\* C17: sendMessage hands the message to the socket and returns true exactly
\* when wsRef holds a socket whose readyState is OPEN; otherwise it returns
\* false; and nothing is handed to a socket by any other step.
C17_SendOnlyWhenOpen ==
    [][/\ SendMessage
          => IF IsOpenRef(St)
             THEN sentCount' = sentCount + 1 /\ sendResult' = "true"
             ELSE sentCount' = sentCount /\ sendResult' = "false"
       /\ sentCount' # sentCount
          => (IsOpenRef(St) /\ sendResult' = "true")]_vars

\* A message was sent while open, and a later call after the connection was
\* lost returned false.
C17_Witness ==
    /\ sentCount = 1
    /\ sendResult = "false"
    /\ ~connected

\* C18: a historical fetch that fails (network error, non-OK response, body
\* without a sessions list) leaves the session map and the connection as
\* they were and throws nothing.
C18_FetchFailureKeepsMap ==
    [][(FetchResponse(FALSE) \/ \E data \in SentMaps : FetchJson(FALSE, data))
          => /\ sessions' = sessions
             /\ sockets' = sockets /\ connected' = connected
             /\ ~uncaught']_vars

\* The only fetch has failed, the live sessions are in the map and the
\* stream is still open.
C18_Witness ==
    /\ fetchCount = 1 /\ fetchPending = 0 /\ jsonPending = 0
    /\ ~historicalLoadedRef
    /\ connected
    /\ Keys(sessions) = SessionIds

\* C19: a time_update changes the world clock and nothing else of the hook's
\* data; a command_response is passed to onCommandResponse and changes
\* neither the session map nor the world clock.
C19_ClockAndCommandFrame ==
    [][\A m \in ClockMessages :
          /\ (m.type = "time_update" /\ Arrives(m))
             => /\ sessions' = sessions
                /\ commandResponses' = commandResponses
                /\ worldTime' = IF m.worldTime # None THEN m.worldTime
                                 ELSE worldTime
          /\ (m.type = "command_response" /\ Arrives(m))
             => /\ sessions' = sessions
                /\ worldTime' = worldTime
                /\ commandResponses' = commandResponses + 1]_vars

\* Both kinds of message were handled while the map held sessions.
C19_Witness ==
    /\ worldTime = 1
    /\ commandResponses = 1
    /\ Keys(sessions) = SessionIds
    /\ parseErrors = 0

\* The images of key k whose load has not ended.
Loading(bag, k) ==
    LET S == {img \in BagToSet(bag) : img.key = k}
    IN  IF S = {} THEN 0 ELSE BagCardinality([img \in S |-> bag[img]])

\* C20: a frame starts the load of a tile only if its key has no cache entry
\* (or the entries were all dropped by the same commit, on a dimension
\* change or a refresh), and the entry is 'loading' at once; a key with an entry of any
\* kind, a failed one included, is not asked for again.
C20_FetchOnlyWithoutEntry ==
    [][\A k \in TileKeys :
          Loading(tileImages', k) > Loading(tileImages, k)
          => /\ Loading(tileImages', k) = Loading(tileImages, k) + 1
             /\ \/ tileCache[k] = "none"
                \/ currentDimension' # currentDimension
                \/ cacheBuster' # cacheBuster
             /\ tileCache'[k] = "loading"]_vars

\* A tile failed, another one is loaded, nothing is loading: frames drawn from
\* here ask for neither.
C20_Witness ==
    /\ tileCache[TileKey("overworld", 0, 0)] = "error"
    /\ tileCache[TileKey("overworld", 8, 0)] = "loaded"
    /\ tileImages = EmptyBag
    /\ currentDimension = "overworld"

(* ===================== properties of the map canvas ==================== *)
\* C21: when the load of a tile ends with a decoded image of 1x1 pixels, the
\* cache entry of the tile becomes 'empty' (neither 'error' nor the image)
\* and worldBounds stays as it was, its initialized flag included.
C21_TinyImageIsEmpty ==
    [][\A img \in BagToSet(tileImages) :
          ImageLoad(img, 1, 1)
          => /\ tileCache'[img.key] = "empty"
             /\ worldBounds' = worldBounds]_vars

\* A placeholder arrived for a tile while no tile had been loaded: the bounds
\* are still uninitialized.
C21_Witness ==
    /\ tileCache[TileKey("overworld", 0, 0)] = "empty"
    /\ tileCache[TileKey("overworld", 8, 0)] = "loading"
    /\ ~worldBounds.initialized
    /\ cacheBuster = 0

\* Every cache entry is absent or was made by the frame drawn with version v,
\* the visible tiles have all been asked for, and the bounds are reset.
Afresh(v) ==
    /\ \A k \in TileKeys :
          /\ tileCache'[k] \in {"none", "loading"}
          /\ tileCache'[k] = "loading" => BagIn(Image(k, v), tileImages')
    /\ \A k \in visibleKeys(Tl', transform') : tileCache'[k] = "loading"
    /\ worldBounds' = NoBounds

C23_WitnessDimension ==
    /\ currentDimension = "the_nether"
    /\ prevDimensionRef = "the_nether"
    /\ ~worldBounds.initialized
    /\ \A k \in KeysOf("the_nether") : tileCache[k] = "loading"
    /\ \A k \in KeysOf("overworld") : tileCache[k] = "none"

\* Rectangle a lies within rectangle b.
Within(a, b) ==
    /\ b.minX <= a.minX /\ a.maxX <= b.maxX
    /\ b.minZ <= a.minZ /\ a.maxZ <= b.maxZ

\* C22: in a step that is neither a refresh nor a change of the dimension,
\* initialized bounds stay initialized and the new rectangle contains the
\* old one.
C22_BoundsNeverShrink ==
    [][(/\ worldBounds.initialized
        /\ cacheBuster' = cacheBuster
        /\ currentDimension' = currentDimension)
       => /\ worldBounds'.initialized
          /\ Within(worldBounds, worldBounds')]_vars

\* The points of the sessions of map that are in dimension d.
PointsOf(map, d) ==
    UNION {InDim(map[id].path, DIMENSION_FULL_IDS(d)) : id \in Keys(map)}

\* C24: while the map is shown and the sessions hold a point in the current
\* dimension, the bounds are initialized and contain every such point.
C24_SeededFromPoints ==
    (~initialLoading /\ PointsOf(sessions, currentDimension) # {})
    => /\ worldBounds.initialized
       /\ \A q \in PointsOf(sessions, currentDimension) :
             /\ worldBounds.minX <= q.x /\ q.x <= worldBounds.maxX
             /\ worldBounds.minZ <= q.z /\ q.z <= worldBounds.maxZ

\* C25: while the map is shown, the scale of the transform is at least 0.01
\* and at most 50.
C25_ScaleInRange ==
    ~initialLoading
    => Le(Frac(1, 100), transform.scale) /\ Le(transform.scale, Num(50))

\* The world coordinates under the pointer of event e with transform tr.
WorldUnder(e, tr) ==
    [x |-> screenToWorld(e.clientX - CanvasRect.left, dimensions.width,
                         tr.offsetX, tr.scale),
     z |-> screenToWorld(e.clientY - CanvasRect.top, dimensions.height,
                         tr.offsetY, tr.scale)]

\* |a - b| < 0.01
Near(a, b) ==
    LET diff == Sub(a, b)
    IN  Lt(diff, Frac(1, 100)) /\ Lt(Neg(diff), Frac(1, 100))

\* C26: a wheel event leaves the world point under the pointer where it was
\* (within 0.01), whatever the closure of its handler holds and whether or
\* not the new scale is clamped.
C26_WheelKeepsWorldPoint ==
    [][\A e \in WheelEvents :
          Wheel(e)
          => /\ Near(WorldUnder(e, transform').x, WorldUnder(e, transform).x)
             /\ Near(WorldUnder(e, transform').z, WorldUnder(e, transform).z)]_vars

\* Two wheel events away from the centre were handled since the last render,
\* which showed a scale above 50 (eight presses of zoom-in): the new scale is
\* clamped at 50.
C26_Witness ==
    /\ moves = 2
    /\ shown.transform.scale = Frac(6561, 128)
    /\ transform.scale = Num(50)
    /\ transform.offsetX # Num(0)
    /\ shown.transform.offsetX = Num(0)

\* C27: a mouse-move event of a drag with initialized bounds leaves the world
\* point at the centre of the viewport within the bounds widened by 100 and
\* keeps the scale; with uninitialized bounds it moves the offsets by the
\* distance of the pointer from where the last mouse event of the drag left
\* it.
C27_DragClampedOrFree ==
    [][\A e \in Pointers :
          (shown.isDragging /\ MouseMove(e, << >>))
          => IF worldBounds.initialized
             THEN LET centerX == Div(Neg(transform'.offsetX), transform'.scale)
                      centerZ == Div(Neg(transform'.offsetY), transform'.scale)
                  IN  /\ Le(Num(worldBounds.minX - 100), centerX)
                      /\ Le(centerX, Num(worldBounds.maxX + 100))
                      /\ Le(Num(worldBounds.minZ - 100), centerZ)
                      /\ Le(centerZ, Num(worldBounds.maxZ + 100))
                      /\ transform'.scale = transform.scale
             ELSE /\ transform'.offsetX =
                         Add(transform.offsetX, Num(e.clientX - lastMouse.x))
                  /\ transform'.offsetY =
                         Add(transform.offsetY, Num(e.clientY - lastMouse.y))
                  /\ transform'.scale = transform.scale]_vars

\* min(availableWidth / worldWidth, availableHeight / worldHeight, 2) with
\* 50 px of padding on each side.
FitScale(bounds, dims) ==
    MathMin(MathMin(Frac(dims.width - 100, bounds.maxX - bounds.minX),
                    Frac(dims.height - 100, bounds.maxZ - bounds.minZ)),
            Num(2))

\* C28: a press of the reset-view button while the world bounds are
\* initialized sets the scale to the least of availableWidth / worldWidth,
\* availableHeight / worldHeight and the cap 2.
C28_FitAllScale ==
    [][ResetView /\ worldBounds.initialized
           => transform'.scale = FitScale(worldBounds, dimensions)]_vars

\* The points of a path in the dimension the map shows.
Shown(path) ==
    LET IsIn(q) == q.dim = DIMENSION_FULL_IDS(currentDimension)
    IN  SelectSeq(path, IsIn)

\* A path that goes east along one line.
Straight(pts) ==
    \A i \in 1..(Len(pts) - 1) :
        pts[i].z = pts[i + 1].z /\ pts[i].x <= pts[i + 1].x

\* The length on the screen of a straight path, in pixels.
ScreenLength(pts) == Mul(Num(pts[Len(pts)].x - pts[1].x), transform.scale)

\* C29: the number of chevrons drawn along the selected session's path,
\* when it is straight, is floor(L / 60) for its length L on the screen,
\* however many points compose it.
C29_ChevronCount ==
    \A id \in Keys(sessions) :
        /\ ~initialLoading /\ selectedSessionId = id
        /\ Len(Shown(sessions[id].path)) >= 2
        /\ Straight(Shown(sessions[id].path))
        => drawRoute(Tl, sessions[id], TRUE,
                     DIMENSION_FULL_IDS(currentDimension),
                     ArrowSettings).indicators
             = MathFloor(Div(ScreenLength(Shown(sessions[id].path)), Num(60)))

\* The chunks of the world bounds with the margin of 2 chunks around them.
BoundsChunks ==
    [startX |-> MathFloor(Frac(worldBounds.minX, CHUNK_SIZE)) - 2,
     endX   |-> MathCeil(Frac(worldBounds.maxX, CHUNK_SIZE)) + 2,
     startZ |-> MathFloor(Frac(worldBounds.minZ, CHUNK_SIZE)) - 2,
     endZ   |-> MathCeil(Frac(worldBounds.maxZ, CHUNK_SIZE)) + 2]

\* The chunks of the viewport with the margin of 1 chunk around them.
VisibleChunks ==
    LET w == dimensions.width
        h == dimensions.height
        c == Num(CHUNK_SIZE)
    IN  [startX |-> MathFloor(Div(toWorld(0, w, transform.offsetX,
                                          transform.scale), c)) - 1,
         endX   |-> MathCeil(Div(toWorld(w, w, transform.offsetX,
                                         transform.scale), c)) + 1,
         startZ |-> MathFloor(Div(toWorld(0, h, transform.offsetY,
                                          transform.scale), c)) - 1,
         endZ   |-> MathCeil(Div(toWorld(h, h, transform.offsetY,
                                         transform.scale), c)) + 1]

Inside(r, outer) ==
    /\ outer.startX <= r.startX /\ r.endX <= outer.endX
    /\ outer.startZ <= r.startZ /\ r.endZ <= outer.endZ

\* C30: while the world bounds are initialized, the chunks whose tiles the
\* frame of the rendered view asks for lie inside the chunks of the bounds
\* with their margin and inside the chunks of the viewport with its margin.
C30_TilesInsideExplored ==
    ~initialLoading /\ worldBounds.initialized /\ shown = Closure(Tl)
        => /\ Inside(tileRange(Tl, transform), BoundsChunks)
           /\ Inside(tileRange(Tl, transform), VisibleChunks)

\* The number of tiles the loops of the draw effect over a chunk rectangle
\* ask loadTile for.
TilesIn(r) ==
    (IF r.endX < r.startX THEN 0 ELSE r.endX - r.startX + 1)
        * (IF r.endZ < r.startZ THEN 0 ELSE r.endZ - r.startZ + 1)

\* C31: the frame of the rendered view asks the cache for at most 1000
\* tiles.
C31_AtMostMaxTiles ==
    ~initialLoading /\ shown = Closure(Tl)
        => TilesIn(tileRange(Tl, transform)) <= 1000

\* The rectangle of the world the tile of key shows.
TileRect(key) ==
    [minX |-> key.x * CHUNK_SIZE, maxX |-> key.x * CHUNK_SIZE + CHUNK_SIZE,
     minZ |-> key.z * CHUNK_SIZE, maxZ |-> key.z * CHUNK_SIZE + CHUNK_SIZE]

\* Rectangle b is the smallest one that contains the rectangles of S.
Hull(b, S) ==
    /\ \A q \in S : Within(q, b)
    /\ \E q \in S : b.minX = q.minX
    /\ \E q \in S : b.maxX = q.maxX
    /\ \E q \in S : b.minZ = q.minZ
    /\ \E q \in S : b.maxZ = q.maxZ

\* C32: when the image of a tile arrives with the size of a chunk, the tile
\* is marked loaded and the world bounds become the smallest rectangle that
\* contains the tile and, if they were initialized, the bounds before.
C32_LoadedTileExtendsBounds ==
    [][\A img \in BagToSet(tileImages) :
           ImageLoad(img, CHUNK_SIZE, CHUNK_SIZE)
               => /\ tileCache'[img.key] = "loaded"
                  /\ worldBounds'.initialized
                  /\ Hull(worldBounds',
                          {TileRect(img.key)}
                              \cup (IF worldBounds.initialized
                                    THEN {worldBounds} ELSE {}))]_vars

\* Both tiles of the overworld are loaded and the bounds span them.
C32_Witness ==
    /\ tileCache[TileKey("overworld", 0, 0)] = "loaded"
    /\ tileCache[TileKey("overworld", 8, 0)] = "loaded"
    /\ worldBounds = [minX |-> 0, maxX |-> 144, minZ |-> 0, maxZ |-> 16,
                      initialized |-> TRUE]

\* The centre of a rectangle.
CenterX(b) == Frac(b.minX + b.maxX, 2)
CenterZ(b) == Frac(b.minZ + b.maxZ, 2)

\* C33: a press of the reset-view button while the world bounds are
\* initialized puts the centre of the bounds at the centre of the viewport:
\* the offsets are minus the centre times the scale the transform holds.
C33_FitAllCentres ==
    [][ResetView /\ worldBounds.initialized
           => /\ transform'.offsetX =
                     Mul(Neg(CenterX(worldBounds)), transform'.scale)
              /\ transform'.offsetY =
                     Mul(Neg(CenterZ(worldBounds)), transform'.scale)]_vars

\* What the frame draws for session id under the given display settings.
Drawn(id, settings) ==
    drawRoute(Tl, sessions[id], id = selectedSessionId,
              DIMENSION_FULL_IDS(currentDimension), settings)

\* C34: whatever the display settings, the polyline of a session is drawn
\* exactly when the session is selected, has two points or more in the
\* dimension shown and is active or the paths of inactive sessions are
\* shown; a session that is over draws nothing while that setting is off;
\* the end arrowhead is drawn only for a selected session that is over.
C34_WhatARouteDraws ==
    ~initialLoading =>
        \A id \in Keys(sessions), settings \in DisplaySettings :
            /\ Drawn(id, settings).polyline
                   <=> /\ id = selectedSessionId
                       /\ Len(Shown(sessions[id].path)) >= 2
                       /\ sessions[id].active \/ settings.showInactivePaths
            /\ ~sessions[id].active /\ ~settings.showInactivePaths
                   => Drawn(id, settings) = NothingDrawn
            /\ Drawn(id, settings).endArrow
                   => id = selectedSessionId /\ ~sessions[id].active

\* A session that is over is selected and has two points in the dimension
\* shown while another session is active: its polyline and arrowhead are
\* drawn with the setting on.
C34_Witness ==
    /\ ~initialLoading
    /\ \E id \in Keys(sessions) :
          /\ id = selectedSessionId
          /\ ~sessions[id].active
          /\ Len(Shown(sessions[id].path)) >= 2
          /\ Drawn(id, ArrowSettings).polyline
          /\ Drawn(id, ArrowSettings).endArrow
    /\ \E id \in Keys(sessions) :
          sessions[id].active /\ Drawn(id, ArrowSettings).marker

\* The request of img started before the last refresh of the tiles, or for
\* another dimension than the one shown.
Outdated(img) == img.v < cacheBuster \/ img.key.dim # currentDimension

\* C35: the arrival of an image whose request is outdated changes neither
\* the tile cache nor the world bounds.
C35_OutdatedImageIgnored ==
    [][\A img \in BagToSet(tileImages), w \in NaturalSizes, h \in NaturalSizes :
           ImageLoad(img, w, h) /\ Outdated(img)
               => tileCache' = tileCache /\ worldBounds' = worldBounds]_vars

\* C36: the close of a socket, with the error that may precede it, while the
\* hook holds another socket leaves the hook's reference and the in-flight
\* guard as they were, and leaves connected as it was if the socket the hook
\* holds is open.
C36_LateCloseHarmless ==
    [][\A s \in SocketIds, code \in CloseCodes :
           SocketClose(s, code) /\ wsRef # 0 /\ wsRef # s
               => /\ wsRef' = wsRef
                  /\ isConnectingRef' = isConnectingRef
                  /\ sockets[wsRef] = "OPEN" => connected' = connected]_vars

\* C37: a step taken after the unmount changes neither the session map, the
\* world clock nor connected, and creates no socket.
C37_QuietAfterUnmount ==
    [][~isMountedRef
           => /\ sessions' = sessions
              /\ worldTime' = worldTime
              /\ connected' = connected
              /\ \A s \in SocketIds :
                    sockets[s] = "NONE" => sockets'[s] = "NONE"]_vars

\* The square of the distance on the screen, in the frame shown, between the
\* pointer of event e and the last point of session id.
ScreenDistance2(id, e) ==
    LET lastPoint == sessions[id].path[Len(sessions[id].path)]
        dx == Sub(toScreen(lastPoint.x, dimensions.width,
                           shown.transform.offsetX, shown.transform.scale),
                  Num(e.clientX - CanvasRect.left))
        dy == Sub(toScreen(lastPoint.z, dimensions.height,
                           shown.transform.offsetY, shown.transform.scale),
                  Num(e.clientY - CanvasRect.top))
    IN  Add(Mul(dx, dx), Mul(dy, dy))

\* The sessions whose marker the frame draws within 20 px of the pointer.
MarkersNear(e) ==
    {id \in Keys(sessions) :
        /\ sessions[id].active
        /\ Len(sessions[id].path) > 0
        /\ sessions[id].path[Len(sessions[id].path)].dim
               = DIMENSION_FULL_IDS(currentDimension)
        /\ Lt(ScreenDistance2(id, e), Num(400))}

\* C38: after a move of the pointer the hovered session is the nearest of
\* the active sessions whose marker is drawn, in the dimension shown, within
\* 20 px of the pointer; it is none when there is no such session.
C38_HoverPicksDrawnMarker ==
    [][\A e \in Pointers, order \in Orders(sessions) :
           MouseMove(e, order)
               => IF MarkersNear(e) = {} THEN hoveredSession' = 0
                  ELSE /\ hoveredSession' \in MarkersNear(e)
                       /\ \A id \in MarkersNear(e) :
                             Le(ScreenDistance2(hoveredSession', e),
                                ScreenDistance2(id, e))]_vars

\* The transform with the origin at the centre of the viewport.
AtOrigin(tr) == [tr EXCEPT !.offsetX = Num(0), !.offsetY = Num(0)]

\* C39: a change of the dimension, whose bounds are not known yet, leaves
\* the transform as it is or puts the origin at the centre: it does not fit
\* the view to the bounds of the dimension left.
C39_SwitchIgnoresOldBounds ==
    [][\A d \in Dimensions, order \in Orders(sessions) :
           ChangeDimension(d, order)
               => transform' \in {transform, AtOrigin(transform)}]_vars

\* C40: once the view has been centred by the auto-center effect it is
\* never centred by it again: hasInitializedView stays set, and from then on
\* a step that changes the session map leaves the transform as it is and a
\* change of the dimension changes it only by the fit-all of the switch.
C40_AutoCentreOnce ==
    [][hasInitializedView
           => /\ hasInitializedView'
              /\ \/ transform' = transform
                 \/ \E d \in Dimensions, order \in Orders(sessions) :
                       /\ ChangeDimension(d, order)
                       /\ transform' = resetViewHandle(Tl).transform]_vars

\* The view was centred on the listed session in the overworld; player 1
\* is online in the nether, the map shows the nether and the view is not
\* centred on the player.
C40_Witness ==
    /\ hasInitializedView
    /\ currentDimension = "the_nether"
    /\ sessions[1].active
    /\ Len(sessions[1].path) > 0
    /\ sessions[1].path[Len(sessions[1].path)].dim = "minecraft:the_nether"
    /\ Has(sessions, NumSessions)
    /\ transform # CenteredOn(PointIn("minecraft:the_nether", 3, 4, 2))

====
